---- MODULE Spec2Model ----
(***************************************************************************)
(* A model of the issues server's Amplifier session manager                *)
(* (issues_server/amplifier.py), of the WebSocket broadcaster it emits its *)
(* lifecycle events through (issues_server/ws.py) and of the part of the   *)
(* git-backed project store its write-back uses (issues_server/storage.py).*)
(*                                                                         *)
(* The server runs on one asyncio event loop: a coroutine runs without     *)
(* interruption from one await that really suspends to the next.  Every    *)
(* action below is one such uninterrupted segment.                         *)
(***************************************************************************)
EXTENDS Integers, Sequences, FiniteSets, TLC

\* ---------------------------------------------------------------- bounds
MaxCalls     == 2      \* run() calls made over the server's lifetime
FewCalls     == 1      \* run() calls in SpecFail, SpecOut and SpecCancel
NumIssues    == 1      \* issues of the project, numbered 1..NumIssues
MaxListeners == 2      \* WebSocket clients that may connect
MaxClients   == 2      \* concurrent callers of the store's counters
MaxCommits   == 2      \* commits a history of SpecStore may gain
MaxAllocs    == 3      \* identifiers allocated between two resets of meta.json
MaxStores    == 2      \* store directories: the first and connect_store's
MaxLabels    == 2      \* labels that labels.json may hold
MaxEdits     == 3      \* commits that the label requests may make
MaxWrites    == 3      \* write_issue, write_comment, write_labels calls of SpecRoundTrip
MaxText      == 5      \* tokens of a text that _extract_json is given

Calls     == 1..MaxCalls
Issues    == 1..NumIssues
Listeners == 1..MaxListeners
Clients   == 1..MaxClients
Dirs      == 1..MaxStores
Project   == "proj"

\* ------------------------------------------------------- python values
None == "<None>"                       \* Python's None
NoSession == 0                         \* a key that is not in self.sessions

\* dict.get(key, default), on the value v recorded for the key
Get(v, default) == IF v = "<absent>" THEN default ELSE v

\* Python's `a or b` on str | None
Or(a, b) == IF a = None \/ a = "" THEN b ELSE a

VARIABLES
    sessions,     \* AmplifierManager.sessions: key -> session object (its id)
    sess,         \* the AmplifierSession objects, by id
    call,         \* the run() calls: their key and position
    proc,         \* the subprocesses: state, SIGTERM received, who reads stdout
    task,         \* the supervising tasks (_wait): position, session held
    bc,           \* the broadcast() call in progress of each run / task
    connections,  \* WebSocketManager.connections
    wsState,      \* each client's ws_endpoint: "new", "open" or "closed"
    received,     \* what each client has received, in order
    emitted,      \* every broadcast() call made so far
    settings,     \* <project_dir>/.amplifier/settings.local.yaml
    store,        \* working tree of the project store
    head,         \* HEAD commit of the store
    remote,       \* what origin holds
    ret,          \* outcome of the last cancel() or store call
    env,          \* what the server's surroundings may do; never changes
    log,          \* the store's local history: the tree of each commit
    rlog,         \* origin's history
    client,       \* the callers of the store's counters: position, Meta read
    allocated,    \* the identifiers the counters have returned, in order,
                  \* since meta.json was last set by another operation (base:
                  \* to what), and whether two of the calls overlapped
    cfg,          \* project.json: the project's store_id and store path
    manifest,     \* .attractor-store.json of each store directory
    written       \* the value last given to write_issue, write_comment and
                  \* write_labels for each key, by the callers of SpecRoundTrip

\* the store's history and the callers of its counters
storeSide == <<log, rlog, client, allocated>>
\* the project's configuration
projSide == <<cfg, manifest>>

vars == <<sessions, sess, call, proc, task, bc, connections, wsState, received,
          emitted, settings, store, head, remote, ret, env, storeSide, projSide, written>>

\* ------------------------------------------------------------ the data
\* AmplifierManager._key: f"{project_name}#{issue_number}".  The issue number
\* is an int, so the text after the last '#' determines it and the key
\* determines the pair; the model keeps the pair.
Key(project_name, issue_number) == <<project_name, issue_number>>
Keys == {Key(Project, i) : i \in Issues}

\* What a subprocess leaves behind: parsed is what _extract_json recovers
\* from its stdout, stderr is its stderr text.  A recovered dict is given by
\* its "status", "response" and "error" entries, each a string, None (JSON
\* null) or Absent (no such key); NotJson stands for the None _extract_json
\* returns when no object can be recovered.
Absent == "<absent>"
Dict(status, response, error) ==
    [isdict |-> TRUE, status |-> status, response |-> response, error |-> error]
NotJson == [isdict |-> FALSE, status |-> Absent, response |-> Absent,
            error |-> Absent]
Outputs ==
    { [parsed |-> d, stderr |-> ""] : d \in
        { Dict("success", "answer", Absent),
          Dict("success", "", Absent),
          Dict("success", Absent, Absent),
          Dict("success", None, Absent),
          Dict("error", Absent, "boom"),
          Dict("error", Absent, Absent),
          Dict("error", Absent, None) } }
    \cup { [parsed |-> NotJson, stderr |-> e] : e \in {"", "2 lines", "12 lines"} }

\* _wait: "\n".join(stderr_text.splitlines()[-10:]), on the stderr texts of
\* the model (named by what they hold)
TailLines(text) == IF text = "12 lines" THEN "lines 3 to 12 of 12" ELSE text

\* stdout and stderr of a process whose pipes another task has read to EOF
EmptyOutput == [parsed |-> NotJson, stderr |-> ""]

\* models.ATTRACTOR_BOT
ATTRACTOR_BOT == "attractor-bot"
\* routes/issues.py LOCAL_USER, the author of what requests create
LOCAL_USER == "local-user"

\* The steps of the write-back that may raise, in the order _wait runs them.
WriteBackSteps == <<"sync", "next_comment_id", "write_comment", "read_issue",
                    "write_issue", "commit", "push">>
NoFailure == "none"
Failures == {WriteBackSteps[n] : n \in DOMAIN WriteBackSteps} \cup {NoFailure}
StepNo(f) == IF f = NoFailure THEN Len(WriteBackSteps) + 1
             ELSE CHOOSE n \in DOMAIN WriteBackSteps : WriteBackSteps[n] = f
\* str(exc) of the exception a failing step raises
ExcMsg(f) == "error in " \o f
\* str(exc) of the RuntimeError StreamReader.read raises for a second reader
ReadBusyMsg == "read() called while another coroutine is already waiting"

\* The payload of an event; commentId is NoComment and error is Absent in
\* the events that do not carry them.  src names the run() call or
\* supervising task that made the broadcast() call.
NoComment == 0
Msg(event, issue, commentId, error, src) ==
    [event |-> event, project |-> Project, issueNumber |-> issue,
     commentId |-> commentId, error |-> error, src |-> src]

\* A broadcast() call: its message, the list iterator's position, the
\* listener whose send_text is in flight and the listeners collected as
\* failed; `behind` are the calls whose send to the same listener was made
\* earlier and has not returned.  If the surroundings observe deliveries,
\* start is the list of connections when the call began and sent the
\* listeners delivered to, in order.
NoBroadcast == [active |-> FALSE, msg |-> Msg("none", 0, NoComment, Absent, 0),
                idx |-> 0, target |-> 0, failed |-> <<>>, behind |-> {},
                start |-> <<>>, sent |-> <<>>]

\* The project's first store directory, and the manifest of a directory
\* that does not exist.
FirstStore == 1
NoDir == 0

NoSessionObj == [status |-> "unborn", issue_number |-> 0, finished_at |-> None,
                 error |-> None, process |-> 0, task |-> 0]
NoProc == [state |-> "none", sigterm |-> FALSE, reader |-> 0, read |-> FALSE]
\* A request: its position, its issue, the session run() found recorded and
\* the directory of the ProjectStorage it was given.
NoCall == [pc |-> "idle", issue |-> 0, existing |-> 0, store |-> NoDir]
\* A task's locals: the session it holds, what communicate() gave it and the
\* write-back step that raised in it.
NoTask == [pc |-> "none", session |-> 0, com |-> [raised |-> FALSE, out |-> EmptyOutput],
           fail |-> NoFailure]

\* A label of labels.json.
Label(id, name) == [id |-> id, name |-> name]

\* The Issue that create_issue constructs, with the model's defaults for the
\* fields it does not set: open, no comments, never closed.  labels are the
\* names of the issue's labels and assignees the logins, in order.
NewIssue(labels, assignees) ==
    [comments |-> 0, state |-> "open", state_reason |-> None,
     closed_at |-> None, closed_by |-> None, labels |-> labels,
     assignees |-> assignees]

\* The store at start-up: the issues 1..NumIssues were created, without
\* labels or assignees, in a store that ProjectStorage.init made
\* (next_comment_id 1, no comments, no labels); labels is labels.json and
\* issues maps each issue's number to issues/<number>.json.
InitTree == [next_issue_id |-> NumIssues + 1, next_comment_id |-> 1,
             labels |-> <<>>, comments |-> {},
             issues |-> [i \in Issues |-> NewIssue(<<>>, <<>>)]]

\* ProjectStorage.read_meta, of a tree that holds meta.json
ReadMeta(tree) == [next_issue_id |-> tree.next_issue_id,
                   next_comment_id |-> tree.next_comment_id]

\* A caller of next_issue_id / next_comment_id: pc is "read" between its
\* read_meta and its write_meta, meta is the Meta object it read; clean says
\* that no other caller has written meta.json since.
NoMeta == [next_issue_id |-> 0, next_comment_id |-> 0]
NoClient == [pc |-> "idle", kind |-> "none", meta |-> NoMeta, clean |-> TRUE]

\* No write_issue, write_comment or write_labels call was made yet.
NotWritten == "<not written>"
NothingWritten == [issues |-> <<>>, comments |-> <<>>, labels |-> NotWritten,
                   writes |-> 0]

\* The state after start-up, in surroundings e: e.calls run() calls are
\* made and e.listeners clients connect, a subprocess may leave any of
\* e.outputs, any step of e.failures may raise in a write-back, the store has
\* a remote named origin or not as e.remotes says (with one, the project has
\* no settings file yet; without, it has the user's own), and what the
\* clients receive is recorded in `received` if e.observe.
InitIn(e) ==
    /\ sessions = [k \in Keys |-> NoSession]
    /\ sess = [c \in Calls |-> NoSessionObj]
    /\ call = [c \in Calls |-> NoCall]
    /\ proc = [c \in Calls |-> NoProc]
    /\ task = [c \in Calls |-> NoTask]
    /\ bc = [c \in Calls |-> NoBroadcast]
    /\ connections = <<>>
    /\ wsState = [l \in Listeners |-> "new"]
    /\ received = [l \in Listeners |-> <<>>]
    /\ emitted = {}
    /\ store = InitTree
    /\ head = InitTree
    /\ \E has \in e.remotes :
         /\ remote = [has |-> has, tree |-> InitTree]
         /\ settings = IF has THEN "absent" ELSE "custom"
    /\ ret = [op |-> "none", issue |-> 0, val |-> "none"]
    /\ env = e
    /\ log = <<InitTree>>
    /\ rlog = IF remote.has THEN <<InitTree>> ELSE <<>>
    /\ client = [a \in Clients |-> NoClient]
    /\ allocated = [ids |-> <<>>, overlapped |-> FALSE, base |-> ReadMeta(InitTree)]
    /\ cfg = [store_id |-> 1, path |-> FirstStore, github |-> remote.has]
    /\ manifest = [d \in Dirs |-> IF d = FirstStore THEN 1 ELSE NoDir]
    /\ written = NothingWritten

\* ------------------------------------------------------ the broadcaster
\* mutant of Disconnect: without the membership test, the last listener
\* goes when ws is not in the list
DisconnectOrLast(conns, ws) ==
    IF \E n \in DOMAIN conns : conns[n] = ws
    THEN SelectSeq(conns, LAMBDA l : l # ws)
    ELSE SubSeq(conns, 1, Len(conns) - 1)
\* WebSocketManager.disconnect: list.remove of the first occurrence, if any.
Disconnect(conns, ws) ==
    IF \E n \in DOMAIN conns : conns[n] = ws
    THEN LET n == CHOOSE m \in DOMAIN conns :
                     conns[m] = ws /\ \A k \in 1..(m-1) : conns[k] # ws
         IN  SubSeq(conns, 1, n-1) \o SubSeq(conns, n+1, Len(conns))
    ELSE conns

\* the second loop of broadcast: disconnect every collected listener
RECURSIVE DisconnectAll(_, _)
DisconnectAll(conns, failed) ==
    IF failed = <<>> THEN conns
    ELSE DisconnectAll(Disconnect(conns, Head(failed)), Tail(failed))

\* broadcast() up to its first await: nothing to do with no connection,
\* else the send to the first connection is in flight.
BroadcastBegin(msg, conns) ==
    IF Len(conns) = 0 THEN NoBroadcast
    ELSE [NoBroadcast EXCEPT !.active = TRUE, !.msg = msg, !.idx = 1,
                             !.target = conns[1]]

\* broadcast() from the return of a send_text (ok: it did not raise) to the
\* next await: the list iterator moves to the next position of the list as
\* it is now, else the loop ends.
BroadcastNext(b, ok, conns) ==
    LET failed == IF ok THEN b.failed ELSE Append(b.failed, b.target)
    IN  IF b.idx + 1 <= Len(conns)
        THEN [b EXCEPT !.idx = b.idx + 1, !.target = conns[b.idx + 1],
                       !.failed = failed]
        ELSE [NoBroadcast EXCEPT !.failed = failed]

\* The broadcast() calls whose send_text to listener t is in flight: a call
\* made now on t's socket queues behind them.
Waiting(t, c) == {d \in Calls \ {c} : bc[d].active /\ bc[d].target = t}

\* broadcast(), called by run, task or route c, up to its first await
Begun(c, msg) ==
    LET b == BroadcastBegin(msg, connections)
    IN  [b EXCEPT !.start  = IF env.observe THEN connections ELSE <<>>,
                  !.behind = IF b.active THEN Waiting(b.target, c) ELSE {}]

\* broadcast() of c from the return of its send_text to the next await, or
\* to the end of its first loop
After(c, ok) ==
    LET b  == bc[c]
        nb == BroadcastNext(b, ok, connections)
    IN  [nb EXCEPT !.start  = b.start,
                   !.sent   = IF ok /\ env.observe THEN Append(b.sent, b.target)
                              ELSE b.sent,
                   !.behind = IF nb.active THEN Waiting(nb.target, c) ELSE {}]

\* What stays of a broadcast() call that has returned: nothing, or what was
\* observed of it.
Ended(b) == IF env.observe THEN b ELSE NoBroadcast

\* ws_endpoint: manager.connect(ws).  The clients are numbered in the order
\* they connect.
Connect(l) ==
    /\ wsState[l] = "new"
    /\ l <= env.listeners
    /\ l > 1 => wsState[l-1] # "new"
    /\ wsState' = [wsState EXCEPT ![l] = "open"]
    /\ connections' = Append(connections, l)
    /\ UNCHANGED <<sessions, sess, call, proc, task, bc, received, emitted,
                   settings, store, head, remote, ret, env, storeSide, projSide, written>>

\* ws_endpoint: WebSocketDisconnect, manager.disconnect(ws)
ClientDisconnect(l) ==
    /\ wsState[l] = "open"
    /\ wsState' = [wsState EXCEPT ![l] = "closed"]
    /\ connections' = Disconnect(connections, l)
    /\ UNCHANGED <<sessions, sess, call, proc, task, bc, received, emitted,
                   settings, store, head, remote, ret, env, storeSide, projSide, written>>

\* ------------------------------------------------------------ the store
Last(seq) == seq[Len(seq)]
IsPrefix(a, b) == Len(a) <= Len(b) /\ SubSeq(b, 1, Len(a)) = a

\* mutant of WriteMeta: a counter stored is never lowered
WriteMetaKeepsHigher(tree, meta) ==
    [tree EXCEPT
       !.next_issue_id = IF @ > meta.next_issue_id THEN @ ELSE meta.next_issue_id,
       !.next_comment_id = IF @ > meta.next_comment_id THEN @
                           ELSE meta.next_comment_id]

\* ProjectStorage.write_meta: the whole Meta object replaces meta.json
WriteMeta(tree, meta) == [tree EXCEPT !.next_issue_id = meta.next_issue_id,
                                      !.next_comment_id = meta.next_comment_id]

\* meta.next_issue_id / meta.next_comment_id, by the counter's kind
Counter(meta, kind) == IF kind = "issue" THEN meta.next_issue_id
                       ELSE meta.next_comment_id

\* mutant of Incremented: both counters are raised
IncrementedBoth(meta, kind) ==
    [meta EXCEPT !.next_issue_id = @ + 1, !.next_comment_id = @ + 1]

\* mutant of Incremented: the counter read is written back as it is
IncrementedNot(meta, kind) == meta

\* mutant of Incremented: the counter is raised by two
IncrementedTwice(meta, kind) ==
    IF kind = "issue" THEN [meta EXCEPT !.next_issue_id = @ + 2]
    ELSE [meta EXCEPT !.next_comment_id = @ + 2]

\* next_issue_id / next_comment_id: meta.next_..._id = current + 1
Incremented(meta, kind) ==
    IF kind = "issue" THEN [meta EXCEPT !.next_issue_id = @ + 1]
    ELSE [meta EXCEPT !.next_comment_id = @ + 1]

\* ProjectStorage.next_issue_id, run without interruption
NextIssueId(tree) ==
    LET meta == ReadMeta(tree)
    IN  [tree |-> WriteMeta(tree, Incremented(meta, "issue")),
         id |-> Counter(meta, "issue")]

\* mutant of WriteIssue: a file that exists is not written again
WriteIssueKeepsOld(tree, number, issue) ==
    [tree EXCEPT !.issues = tree.issues @@ (number :> issue)]

\* ProjectStorage.write_issue: one file per number, overwritten
WriteIssue(tree, number, issue) ==
    [tree EXCEPT !.issues = (number :> issue) @@ tree.issues]

\* mutant of Staged: the staged diff is never found empty
StagedAlways(tree, hd) == TRUE

\* commit(): after `git add -A`, `git diff --cached --quiet` returns non-zero:
\* the index differs from HEAD
Staged(tree, hd) == tree # hd

\* commit(), on the history: one more commit only with a staged diff
CommitLog(tree, lg) == IF Staged(tree, Last(lg)) THEN Append(lg, tree) ELSE lg

\* The files of a tree, and those that differ between two trees.
Files == {"meta", "labels", "issues", "comments"}
FileOf(tree, f) == IF f = "meta" THEN <<ReadMeta(tree)>>
                   ELSE IF f = "labels" THEN <<tree.labels>>
                   ELSE IF f = "issues" THEN <<tree.issues>>
                   ELSE <<tree.comments>>
Changed(t1, t2) == {f \in Files : FileOf(t1, f) # FileOf(t2, f)}

\* the tree `theirs` with the files in `keep` taken from `ours`
Overlay(theirs, ours, keep) ==
    [next_issue_id |-> IF "meta" \in keep THEN ours.next_issue_id
                       ELSE theirs.next_issue_id,
     next_comment_id |-> IF "meta" \in keep THEN ours.next_comment_id
                         ELSE theirs.next_comment_id,
     labels |-> IF "labels" \in keep THEN ours.labels ELSE theirs.labels,
     issues |-> IF "issues" \in keep THEN ours.issues ELSE theirs.issues,
     comments |-> IF "comments" \in keep THEN ours.comments ELSE theirs.comments]

\* mutant of Sync: a pull that cannot fast-forward merges
SyncMerges(tree, lg, rl, has) ==
    IF ~has \/ IsPrefix(rl, lg)
    THEN [raised |-> FALSE, tree |-> tree, log |-> lg]
    ELSE [raised |-> FALSE, tree |-> Last(rl), log |-> Append(rl, Last(rl))]

\* sync(): nothing without a remote named origin, else `git pull --ff-only`,
\* on the working tree, the local history lg and origin's history rl.  With
\* nothing new on origin it does nothing; it fast-forwards when the local
\* history is a prefix of origin's and no locally changed file is touched by
\* the new commits (the local changes stay); it fails, changing nothing,
\* when the histories have diverged or such a file is touched.
Sync(tree, lg, rl, has) ==
    IF ~has \/ IsPrefix(rl, lg)
    THEN [raised |-> FALSE, tree |-> tree, log |-> lg]
    ELSE IF /\ IsPrefix(lg, rl)
            /\ Changed(tree, Last(lg)) \cap Changed(Last(lg), Last(rl)) = {}
    THEN [raised |-> FALSE, log |-> rl,
          tree |-> Overlay(Last(rl), tree, Changed(tree, Last(lg)))]
    ELSE [raised |-> TRUE, tree |-> tree, log |-> lg]

\* push(), on the histories: nothing without a remote; origin takes the
\* local history if that extends its own, and rejects it otherwise.
PushLog(lg, rl, has) ==
    IF ~has THEN [raised |-> FALSE, rlog |-> rl]
    ELSE IF IsPrefix(rl, lg) THEN [raised |-> FALSE, rlog |-> lg]
    ELSE [raised |-> TRUE, rlog |-> rl]

\* init(), on a directory that is a store already: `git init` and the
\* mkdirs change nothing, meta.json and labels.json are written anew, all is
\* staged, and `git commit` fails only if nothing is staged.
StorageInit(tree, lg) ==
    LET t == [tree EXCEPT !.next_issue_id = 1, !.next_comment_id = 1,
                          !.labels = <<>>]
    IN  IF Staged(t, Last(lg))
        THEN [raised |-> FALSE, tree |-> t, log |-> Append(lg, t)]
        ELSE [raised |-> TRUE, tree |-> t, log |-> lg]

\* ProjectStorage.write_comment: one file per (issue, id), overwritten.
WriteComment(tree, issue, id, body) ==
    [tree EXCEPT !.comments =
        {x \in tree.comments : ~(x.issue = issue /\ x.id = id)}
        \cup {[issue |-> issue, id |-> id, body |-> body,
               user |-> ATTRACTOR_BOT]}]

\* mutant of Commit: nothing is committed
CommitNothing(tree, hd) == hd

\* ProjectStorage.commit: add -A, and a commit only if the index differs
\* from HEAD.
Commit(tree, hd) == IF tree # hd THEN tree ELSE hd

\* mutant of Push: nothing is pushed
PushNothing(hd, rm) == rm

\* ProjectStorage.push: only with a remote named origin.
Push(hd, rm) == IF rm.has THEN [rm EXCEPT !.tree = hd] ELSE rm

\* The write-back of _wait, from sync() to push(), with the step `fail`
\* raising (NoFailure: none does).  sync() pulls nothing: in this model only
\* this server pushes to origin.  Gives the store afterwards, the new
\* comment's id and whether a step raised.
WriteBack(tree, hd, rm, issue, body, fail) ==
    LET n  == StepNo(fail)
        id == tree.next_comment_id
        t2 == [tree EXCEPT !.next_comment_id = id + 1]
        t3 == WriteComment(t2, issue, id, body)
        t5 == IF issue \in DOMAIN t3.issues
              THEN [t3 EXCEPT !.issues[issue].comments = @ + 1] ELSE t3
        t  == IF n <= 2 THEN tree ELSE IF n = 3 THEN t2
              ELSE IF n <= 5 THEN t3 ELSE t5
        h  == IF n >= 7 THEN Commit(t, hd) ELSE hd
    IN  [tree |-> t, head |-> h,
         remote |-> IF n >= 8 THEN Push(h, rm) ELSE rm,
         id |-> id, raised |-> fail # NoFailure]

\* ------------------------------------------------- the session manager
Terminal == {"completed", "failed"}

\* mutant of AlreadyRunning: the running check is missing
NeverRunning(key) == FALSE

\* mutant of AlreadyRunning: any recorded session blocks a new run
AnySessionRecorded(key) == sessions[key] # NoSession

\* run(): existing is not None and existing.status == "running"
AlreadyRunning(key) ==
    sessions[key] # NoSession /\ sess[sessions[key]].status = "running"

\* mutant of EnsureSettings: the default file is written every time
EnsureSettingsAlways(file) == "default"
\* _ensure_settings: write the default file only if none exists
EnsureSettings(file) == IF file = "absent" THEN "default" ELSE file

\* run(): the AmplifierSession it records for the process it spawned
NewSession(issue, process) ==
    [status |-> "running", issue_number |-> issue, finished_at |-> None,
     error |-> None, process |-> process, task |-> 0]

DefaultError == "Amplifier session failed"
ExitCodeMsg  == "Process exited with code N"

\* _wait: comment_body and error_msg from what the process left
Interpret(out) ==
    IF out.parsed.isdict
    THEN IF out.parsed.status = "success"
         THEN [comment_body |-> Get(out.parsed.response, ""), error_msg |-> None]
         ELSE [comment_body |-> None,
               error_msg |-> Get(out.parsed.error, DefaultError)]
    ELSE [comment_body |-> None,
          error_msg |-> Or(TailLines(out.stderr), ExitCodeMsg)]

\* mutant of CommentBody: the error message is not used as the body
CommentBodyWithoutError(r) == IF r.comment_body # None THEN r.comment_body ELSE ""

\* _wait: body = comment_body if comment_body is not None else (error_msg or "")
CommentBody(r) == IF r.comment_body # None THEN r.comment_body
                  ELSE Or(r.error_msg, "")

\* _wait, `if comment_body is not None`: completed, the event carries the id
\* of the comment written; session.error is left as it is.
SuccessBranch(i, src, error, id) ==
    [status |-> "completed", error |-> error,
     msg |-> Msg("amplifier:completed", i, id, Absent, src)]

\* _wait, its `else`: failed with error_msg, the event carries error_msg.
FailureBranch(i, src, error_msg) ==
    [status |-> "failed", error |-> error_msg,
     msg |-> Msg("amplifier:failed", i, NoComment, error_msg, src)]

\* mutant of ExceptBranch: the exception's message is not kept in the session
ExceptBranchDropsError(i, src, exc) ==
    [status |-> "failed", error |-> None,
     msg |-> Msg("amplifier:failed", i, NoComment, exc, src)]

\* _wait, `except Exception as exc`: failed with str(exc), the event carries
\* str(exc).
ExceptBranch(i, src, exc) ==
    [status |-> "failed", error |-> exc,
     msg |-> Msg("amplifier:failed", i, NoComment, exc, src)]

\* _wait from the return of communicate() to its broadcast() call: com is
\* what communicate() gave (raised, or the output), fail the write-back step
\* that raises.  Gives the session's new status and error, the event and the
\* store.
WaitResult(s, src, com, fail) ==
    LET i  == sess[s].issue_number
        r  == Interpret(com.out)
        wb == WriteBack(store, head, remote, i, CommentBody(r), fail)
        to == IF com.raised THEN ExceptBranch(i, src, ReadBusyMsg)
              ELSE IF wb.raised THEN ExceptBranch(i, src, ExcMsg(fail))
              ELSE IF r.comment_body # None
                   THEN SuccessBranch(i, src, sess[s].error, wb.id)
              ELSE FailureBranch(i, src, r.error_msg)
    IN  [status |-> to.status, error |-> to.error, msg |-> to.msg,
         tree   |-> IF com.raised THEN store ELSE wb.tree,
         head   |-> IF com.raised THEN head ELSE wb.head,
         remote |-> IF com.raised THEN remote ELSE wb.remote]

\* ---------------------------------------------------------------- run()
\* get_project_storage: the project's store directory must exist and its
\* manifest must carry the store_id recorded for the project.
GetProjectStorage(config, man) ==
    IF man[config.path] = NoDir THEN "500"
    ELSE IF man[config.path] # config.store_id THEN "409"
    ELSE "ok"

\* The issues in store directory d.  A directory made by connect_store is
\* the clone of a repository that holds no issue.
IssuesIn(d) == IF d = FirstStore THEN DOMAIN store.issues ELSE {}

\* The route (get_project_storage, read_issue: 409, 500 or 404 if they
\* refuse) and run() up to `await create_subprocess_exec`: the running
\* check (ValueError, answered 409), _ensure_settings, _build_prompt.  The
\* calls are made in the order of their numbers, and the issues are first
\* used in the order of theirs (both only name the calls and the issues).
RunCheck(c, i) ==
    /\ call[c].pc = "idle"
    /\ c <= env.calls
    /\ c > 1 => call[c-1].pc # "idle"
    /\ \A j \in 1..(i-1) : \E d \in Calls : call[d].issue = j
    /\ IF GetProjectStorage(cfg, manifest) # "ok" \/ i \notin IssuesIn(cfg.path)
       THEN /\ call' = [call EXCEPT ![c] = [pc |-> "refused", issue |-> i,
                                            existing |-> NoSession,
                                            store |-> NoDir]]
            /\ UNCHANGED settings
       ELSE IF AlreadyRunning(Key(Project, i))
       THEN /\ call' = [call EXCEPT ![c] = [pc |-> "conflict", issue |-> i,
                                            existing |-> sessions[Key(Project, i)],
                                            store |-> cfg.path]]
            /\ UNCHANGED settings
       ELSE /\ call' = [call EXCEPT ![c] = [pc |-> "spawning", issue |-> i,
                                            existing |-> sessions[Key(Project, i)],
                                            store |-> cfg.path]]
            /\ settings' = EnsureSettings(settings)
    /\ UNCHANGED <<sessions, sess, proc, task, bc, connections, wsState,
                   received, emitted, store, head, remote, ret, env, storeSide, projSide, written>>

\* mutant of RunSpawnFails: the session is recorded before the spawn, and
\* stays recorded when the spawn raises
RunSpawnFailsRecorded(c) ==
    /\ call[c].pc = "spawning"
    /\ call' = [call EXCEPT ![c].pc = "spawn_failed"]
    /\ sessions' = [sessions EXCEPT ![Key(Project, call[c].issue)] = c]
    /\ sess' = [sess EXCEPT ![c] = NewSession(call[c].issue, 0)]
    /\ UNCHANGED <<proc, task, bc, connections, wsState, received, emitted,
                   settings, store, head, remote, ret, env, storeSide,
                   projSide, written>>

\* create_subprocess_exec raises (no such program, no more processes): the
\* exception leaves run() and the route.
RunSpawnFails(c) ==
    /\ call[c].pc = "spawning"
    /\ call' = [call EXCEPT ![c].pc = "spawn_failed"]
    /\ UNCHANGED <<sessions, sess, proc, task, bc, connections, wsState,
                   received, emitted, settings, store, head, remote, ret, env, storeSide, projSide, written>>

\* run() once its broadcast of amplifier:started is over: create_task and
\* session.task = task, on the session object this call made.
TaskCreated(sessv, c) == [sessv EXCEPT ![c].task = c]

\* mutant of RunSpawned: the supervising task is created before the
\* broadcast of amplifier:started
RunSpawnedTaskFirst(c) ==
    LET i   == call[c].issue
        msg == Msg("amplifier:started", i, NoComment, Absent, c)
        rec == [sess EXCEPT ![c] = NewSession(i, c)]
    IN  /\ call[c].pc = "spawning"
        /\ proc' = [proc EXCEPT ![c].state = "alive"]
        /\ sessions' = [sessions EXCEPT ![Key(Project, i)] = c]
        /\ emitted' = emitted
        /\ sess' = TaskCreated(rec, c)
        /\ call' = [call EXCEPT ![c].pc = "task_first"]
        /\ task' = [task EXCEPT ![c].pc = "created"]
        /\ UNCHANGED <<bc, connections, wsState, received, settings, store, head,
                       remote, ret, env, storeSide, projSide, written>>
\* run() from the return of create_subprocess_exec: the session is recorded
\* and the broadcast of amplifier:started begins.
RunSpawned(c) ==
    LET i   == call[c].issue
        msg == Msg("amplifier:started", i, NoComment, Absent, c)
        b   == Begun(c, msg)
        rec == [sess EXCEPT ![c] = NewSession(i, c)]
    IN  /\ call[c].pc = "spawning"
        /\ proc' = [proc EXCEPT ![c].state = "alive"]
        /\ sessions' = [sessions EXCEPT ![Key(Project, i)] = c]
        /\ emitted' = emitted \cup {msg}
        /\ bc' = [bc EXCEPT ![c] = b]
        /\ IF b.active
           THEN /\ sess' = rec
                /\ call' = [call EXCEPT ![c].pc = "broadcasting"]
                /\ UNCHANGED task
           ELSE /\ sess' = TaskCreated(rec, c)
                /\ call' = [call EXCEPT ![c].pc = "done"]
                /\ task' = [task EXCEPT ![c].pc = "created"]
        /\ UNCHANGED <<connections, wsState, received, settings, store, head,
                       remote, ret, env, storeSide, projSide, written>>

\* A send_text of the broadcast of run c, of task c or of route c returns
\* or raises.  What a socket delivers it delivers in the order of the calls:
\* a send returns normally only after the sends made earlier on the socket
\* have returned.  After the last send the failed listeners are
\* disconnected, and run() creates the supervising task, the supervising
\* task ends, or the route returns.
Send(c, ok) ==
    LET b  == bc[c]
        nb == After(c, ok)
        others == [d \in Calls |-> [bc[d] EXCEPT !.behind = @ \ {c}]]
    IN  /\ b.active
        /\ ok => b.behind = {}
        /\ received' = IF ok /\ env.observe
                       THEN [received EXCEPT ![b.target] = Append(@, b.msg)]
                       ELSE received
        /\ IF nb.active
           THEN /\ bc' = [others EXCEPT ![c] = nb]
                /\ UNCHANGED <<connections, call, task, sess>>
           ELSE /\ bc' = [others EXCEPT ![c] = Ended(nb)]
                /\ connections' = DisconnectAll(connections, nb.failed)
                /\ IF call[c].pc = "broadcasting"
                   THEN /\ call' = [call EXCEPT ![c].pc = "done"]
                        /\ task' = [task EXCEPT ![c].pc = "created"]
                        /\ sess' = TaskCreated(sess, c)
                   ELSE IF call[c].pc = "creating"
                   THEN /\ call' = [call EXCEPT ![c].pc = "created"]
                        /\ UNCHANGED <<task, sess>>
                   ELSE /\ task' = [task EXCEPT ![c].pc = "done"]
                        /\ UNCHANGED <<call, sess>>
        /\ UNCHANGED <<sessions, proc, wsState, emitted, settings, store,
                       head, remote, ret, env, storeSide, projSide, written>>

\* The subprocess exits.  What it wrote is in the pipes; the model draws it
\* when communicate() returns it.
ProcExit(p) ==
    /\ proc[p].state = "alive"
    /\ proc' = [proc EXCEPT ![p].state = "exited"]
    /\ UNCHANGED <<sessions, sess, call, task, bc, connections, wsState,
                   received, emitted, settings, store, head, remote, ret, env, storeSide, projSide, written>>

\* --------------------------------------------------------------- _wait()
\* _wait from the return of communicate() on: the result is interpreted and
\* written back, the session held is updated and the broadcast of the
\* terminal event begins.
TaskComplete(c, s, com, fail, procs) ==
    LET w == WaitResult(s, c, com, fail)
        b == Begun(c, w.msg)
    IN  /\ sess' = [sess EXCEPT ![s].status = w.status, ![s].error = w.error,
                                ![s].finished_at = "set"]
        /\ store' = w.tree
        /\ head' = w.head
        /\ remote' = w.remote
        /\ emitted' = emitted \cup {w.msg}
        /\ bc' = [bc EXCEPT ![c] = b]
        /\ task' = [task EXCEPT ![c] = [pc |-> IF b.active THEN "bcast" ELSE "done",
                                        session |-> s, com |-> com,
                                        fail |-> IF com.raised THEN NoFailure
                                                 ELSE fail]]
        /\ proc' = procs
        /\ log' = IF w.head # head THEN Append(log, w.head) ELSE log
        /\ rlog' = IF ~com.raised /\ fail = NoFailure /\ remote.has
                   THEN log' ELSE rlog
        /\ UNCHANGED <<sessions, call, connections, wsState, received,
                       settings, ret, env, client, allocated, projSide, written>>

Raised == [raised |-> TRUE, out |-> EmptyOutput]
Returned(out) == [raised |-> FALSE, out |-> out]

\* The supervising task starts: session = self.sessions[key], then
\* communicate() on its process.  With the pipes unread it waits.  A second
\* communicate() on the same process is outside asyncio's contract: its
\* read() raises RuntimeError while the first reader waits for data, takes
\* the buffered output if the first reader was woken and has not yet run,
\* and returns nothing once the pipes were read to their end.
TaskStart(c) ==
    LET s == sessions[Key(Project, call[c].issue)]
        p == sess[s].process
    IN  /\ task[c].pc = "created"
        /\ \/ /\ proc[p].reader = 0 /\ ~proc[p].read
              /\ proc' = [proc EXCEPT ![p].reader = c]
              /\ task' = [task EXCEPT ![c].pc = "waiting", ![c].session = s]
              /\ UNCHANGED <<sessions, sess, call, bc, connections, wsState,
                             received, emitted, settings, store, head, remote,
                             ret, env, storeSide, projSide, written>>
           \/ /\ proc[p].reader # 0 /\ ~proc[p].read
              /\ TaskComplete(c, s, Raised, NoFailure, proc)
           \/ /\ proc[p].reader # 0 /\ ~proc[p].read /\ proc[p].state = "exited"
              /\ \E out \in env.outputs, fail \in env.failures :
                   TaskComplete(c, s, Returned(out), fail,
                                [proc EXCEPT ![p].read = TRUE])
           \/ /\ proc[p].read
              /\ \E fail \in env.failures :
                   TaskComplete(c, s, Returned(EmptyOutput), fail, proc)

\* communicate() returns in a waiting task: the process has exited.
TaskResume(c) ==
    LET s == task[c].session
        p == sess[s].process
    IN  /\ task[c].pc = "waiting"
        /\ proc[p].state = "exited"
        /\ \E out \in IF proc[p].read THEN {EmptyOutput} ELSE env.outputs,
              fail \in env.failures :
             TaskComplete(c, s, Returned(out), fail,
                          [proc EXCEPT ![p].read = TRUE])

\* -------------------------------------------------------------- cancel()
\* cancel(): session is None or session.status != "running" or
\* session.process is None
NothingToCancel(key) ==
    \/ sessions[key] = NoSession
    \/ sess[sessions[key]].status # "running"
    \/ sess[sessions[key]].process = 0

\* cancel() and its route.  send_signal on a live process delivers SIGTERM;
\* on a process that has exited it does nothing while the transport still
\* holds the process, and raises ProcessLookupError once it let go of it.
Cancel(i) ==
    LET key == Key(Project, i)
        p   == sess[sessions[key]].process
    IN  /\ IF NothingToCancel(key)
           THEN /\ ret' = [op |-> "cancel", issue |-> i, val |-> "false"]
                /\ UNCHANGED proc
           ELSE \/ /\ proc[p].state = "alive"
                   /\ proc' = [proc EXCEPT ![p].sigterm = TRUE]
                   /\ ret' = [op |-> "cancel", issue |-> i, val |-> "true"]
                \/ /\ proc[p].state = "exited"
                   /\ UNCHANGED proc
                   /\ \E v \in {"true", "raised"} :
                        ret' = [op |-> "cancel", issue |-> i, val |-> v]
        /\ UNCHANGED <<sessions, sess, call, task, bc, connections, wsState,
                       received, emitted, settings, store, head, remote, env, storeSide, projSide, written>>

\* ------------------------------------------- the store's own operations
\* Callers of one store directory from different threads or processes (the
\* store takes no lock): each step below is one call of a ProjectStorage
\* method, and a counter allocation is two steps, its read_meta and its
\* write_meta.

\* meta.json was set to that of tree t by an operation other than a counter
\* allocation: the record of allocations starts anew, and the callers that
\* have read the old file hold a stale Meta.
Rebased(t) ==
    IF ReadMeta(t) = ReadMeta(store) THEN allocated
    ELSE [ids |-> <<>>, base |-> ReadMeta(t),
          overlapped |-> \E b \in Clients : client[b].pc = "read"]
Stale(t) ==
    IF ReadMeta(t) = ReadMeta(store) THEN client
    ELSE [b \in Clients |-> [client[b] EXCEPT !.clean = FALSE]]

\* next_issue_id / next_comment_id, `meta = self.read_meta()`.  (Caller a
\* is used only while the callers before it are in a call.)
ReadMetaStep(a, kind) ==
    /\ client[a].pc = "idle"
    /\ a <= env.clients /\ kind \in env.kinds
    /\ \A b \in 1..(a-1) : client[b].pc = "read"
    /\ Len(allocated.ids) + Cardinality({b \in Clients : client[b].pc = "read"})
         < env.allocs
    /\ client' = [client EXCEPT ![a] = [pc |-> "read", kind |-> kind,
                                        meta |-> ReadMeta(store), clean |-> TRUE]]
    /\ allocated' = [allocated EXCEPT !.overlapped =
                        @ \/ \E b \in Clients : client[b].pc = "read"]
    /\ UNCHANGED <<sessions, sess, call, proc, task, bc, connections, wsState,
                   received, emitted, settings, store, head, remote, ret, env,
                   log, rlog, projSide, written>>

\* next_issue_id / next_comment_id, from `current = ...` to `return current`
WriteMetaStep(a) ==
    LET kind == client[a].kind
        meta == client[a].meta
    IN  /\ client[a].pc = "read"
        /\ store' = WriteMeta(store, Incremented(meta, kind))
        /\ allocated' = [allocated EXCEPT !.ids =
                            Append(@, [kind |-> kind, id |-> Counter(meta, kind)])]
        /\ client' = [b \in Clients |->
                        IF b = a THEN NoClient
                        ELSE [client[b] EXCEPT !.clean = FALSE]]
        /\ ret' = [op |-> "next_" \o kind \o "_id", issue |-> 0, val |-> "ok"]
        /\ UNCHANGED <<sessions, sess, call, proc, task, bc, connections,
                       wsState, received, emitted, settings, head, remote, env,
                       log, rlog, projSide, written>>

\* write_labels, of the one label of the model
WriteLabels ==
    /\ store.labels = <<>>
    /\ store' = [store EXCEPT !.labels = <<Label(1, "bug")>>]
    /\ ret' = [op |-> "write_labels", issue |-> 0, val |-> "ok"]
    /\ UNCHANGED <<sessions, sess, call, proc, task, bc, connections, wsState,
                   received, emitted, settings, head, remote, env, storeSide,
                   projSide, written>>

\* commit(message)
CommitCall ==
    /\ Len(log) <= MaxCommits
    /\ log' = CommitLog(store, log)
    /\ head' = Last(log')
    /\ ret' = [op |-> "commit", issue |-> 0, val |-> "ok"]
    /\ UNCHANGED <<sessions, sess, call, proc, task, bc, connections, wsState,
                   received, emitted, settings, store, remote, env, rlog,
                   client, allocated, projSide, written>>

\* Another clone of origin pushes a commit to it: it has created an issue.
RemoteCommit ==
    LET n == NextIssueId(Last(rlog))
        t == WriteIssue(n.tree, n.id, NewIssue(<<>>, <<>>))
    IN  /\ remote.has
        /\ Len(rlog) <= MaxCommits
        /\ rlog' = Append(rlog, t)
        /\ remote' = [remote EXCEPT !.tree = t]
        /\ UNCHANGED <<sessions, sess, call, proc, task, bc, connections,
                       wsState, received, emitted, settings, store, head, ret,
                       env, log, client, allocated, projSide, written>>

\* sync()
SyncCall ==
    LET r == Sync(store, log, rlog, remote.has)
    IN  /\ store' = r.tree
        /\ log' = r.log
        /\ head' = Last(r.log)
        /\ allocated' = Rebased(r.tree)
        /\ client' = Stale(r.tree)
        /\ ret' = [op |-> "sync", issue |-> 0,
                   val |-> IF r.raised THEN "raised" ELSE "ok"]
        /\ UNCHANGED <<sessions, sess, call, proc, task, bc, connections,
                       wsState, received, emitted, settings, remote, env, rlog,
                       projSide, written>>

\* push()
PushCall ==
    LET r == PushLog(log, rlog, remote.has)
    IN  /\ rlog' = r.rlog
        /\ remote' = IF remote.has /\ ~r.raised THEN [remote EXCEPT !.tree = head]
                     ELSE remote
        /\ ret' = [op |-> "push", issue |-> 0,
                   val |-> IF r.raised THEN "raised" ELSE "ok"]
        /\ UNCHANGED <<sessions, sess, call, proc, task, bc, connections,
                       wsState, received, emitted, settings, store, head, env,
                       log, client, allocated, projSide, written>>

\* init(), on the store directory (which is an initialized store)
InitCall ==
    LET r == StorageInit(store, log)
    IN  /\ Len(log) <= MaxCommits
        /\ store' = r.tree
        /\ log' = r.log
        /\ head' = Last(r.log)
        /\ allocated' = Rebased(r.tree)
        /\ client' = Stale(r.tree)
        /\ ret' = [op |-> "init", issue |-> 0,
                   val |-> IF r.raised THEN "raised" ELSE "ok"]
        /\ UNCHANGED <<sessions, sess, call, proc, task, bc, connections,
                       wsState, received, emitted, settings, remote, env, rlog,
                       projSide, written>>

\* ---------------------------------------------------------- create_issue
\* _resolve_labels: the requested names that labels.json knows, in the order
\* requested; unknown names are skipped.
RECURSIVE ResolveLabels(_, _)
ResolveLabels(labels, names) ==
    IF names = <<>> THEN <<>>
    ELSE IF \E n \in DOMAIN labels : labels[n].name = Head(names)
         THEN <<Head(names)>> \o ResolveLabels(labels, Tail(names))
         ELSE ResolveLabels(labels, Tail(names))

\* The create_issue route, to its `await ws.broadcast`: the store is synced
\* (origin holds nothing new: only this server pushes to it), the issue gets
\* the next identifier and is written, committed and pushed, and the
\* broadcast of issue:created begins.  The requests are numbered in the
\* order they are handled; no git command fails.  names are the label names
\* of the request body.
CreateIssueLabelled(c, names) ==
    LET n   == NextIssueId(store)
        t   == WriteIssue(n.tree, n.id,
                          NewIssue(ResolveLabels(n.tree.labels, names), <<>>))
        msg == Msg("issue:created", n.id, NoComment, Absent, c)
        b   == Begun(c, msg)
    IN  /\ call[c].pc = "idle"
        /\ c > 1 => call[c-1].pc # "idle"
        /\ GetProjectStorage(cfg, manifest) = "ok" /\ cfg.path = FirstStore
        /\ store' = t
        /\ head' = Commit(t, head)
        /\ remote' = Push(head', remote)
        /\ log' = CommitLog(t, log)
        /\ rlog' = PushLog(log', rlog, remote.has).rlog
        /\ emitted' = emitted \cup {msg}
        /\ bc' = [bc EXCEPT ![c] = b]
        /\ call' = [call EXCEPT ![c] = [pc |-> IF b.active THEN "creating"
                                               ELSE "created",
                                        issue |-> n.id, existing |-> NoSession,
                                        store |-> cfg.path]]
        /\ UNCHANGED <<sessions, sess, proc, task, connections, wsState,
                       received, settings, ret, env, client, allocated,
                       projSide, written>>

\* create_issue with a body that names no labels
CreateIssue(c) == CreateIssueLabelled(c, <<>>)

\* ---------------------------------------------------------- update_issue
\* An UpdateIssueRequest: every field is optional (None: not given), and
\* state is any string.
States == {"open", "closed", "reopened"}
UpdateIssueRequests ==
    [state : States \cup {None}, state_reason : {None, "", "not_planned"},
     labels : {None, <<"bug">>}, assignees : {None}]

\* update_issue, "State transitions": only a state that differs from the
\* issue's is taken; closed sets closed_at, closed_by and state_reason, open
\* clears them, any other state leaves them.
StateTransition(issue, body) ==
    IF body.state # None /\ body.state # issue.state
    THEN IF body.state = "closed"
         THEN [issue EXCEPT !.state = body.state, !.closed_at = "set",
                            !.closed_by = LOCAL_USER,
                            !.state_reason = Or(body.state_reason, "completed")]
         ELSE IF body.state = "open"
         THEN [issue EXCEPT !.state = body.state, !.closed_at = None,
                            !.closed_by = None, !.state_reason = None]
         ELSE [issue EXCEPT !.state = body.state]
    ELSE issue

\* update_issue: the issue read, with the fields of the request applied
Updated(issue, body, labels) ==
    LET i1 == StateTransition(issue, body)
        i2 == IF body.labels # None
              THEN [i1 EXCEPT !.labels = ResolveLabels(labels, body.labels)]
              ELSE i1
    IN  IF body.assignees # None THEN [i2 EXCEPT !.assignees = body.assignees]
        ELSE i2

\* The update_issue route, to its `await ws.broadcast`: sync (origin holds
\* nothing new), 404 without the issue, else the request is applied, the
\* issue written, committed and pushed, and the broadcast of issue:updated
\* begins.  No step fails.
UpdateIssue(c, number, body) ==
    LET t   == WriteIssue(store, number,
                          Updated(store.issues[number], body, store.labels))
        msg == Msg("issue:updated", number, NoComment, Absent, c)
        b   == Begun(c, msg)
    IN  /\ call[c].pc = "idle"
        /\ c > 1 => call[c-1].pc # "idle"
        /\ GetProjectStorage(cfg, manifest) = "ok" /\ cfg.path = FirstStore
        /\ IF number \notin DOMAIN store.issues
           THEN /\ ret' = [op |-> "update_issue", issue |-> number, val |-> "404"]
                /\ UNCHANGED <<store, head, remote, log, rlog, emitted, bc, call>>
           ELSE /\ store' = t
                /\ head' = Commit(t, head)
                /\ remote' = Push(head', remote)
                /\ log' = CommitLog(t, log)
                /\ rlog' = PushLog(log', rlog, remote.has).rlog
                /\ emitted' = emitted \cup {msg}
                /\ bc' = [bc EXCEPT ![c] = b]
                /\ call' = [call EXCEPT ![c] =
                              [pc |-> IF b.active THEN "creating" ELSE "created",
                               issue |-> number, existing |-> NoSession,
                               store |-> cfg.path]]
                /\ ret' = [op |-> "update_issue", issue |-> number, val |-> "ok"]
        /\ UNCHANGED <<sessions, sess, proc, task, connections, wsState,
                       received, settings, env, client, allocated, projSide, written>>

\* -------------------------------------------- create_comment, delete_comment
\* ProjectStorage.write_comment of a comment by `user`: one file per
\* (issue, id), overwritten.
WriteCommentBy(tree, issue, id, body, user) ==
    [tree EXCEPT !.comments =
        {x \in tree.comments : ~(x.issue = issue /\ x.id = id)}
        \cup {[issue |-> issue, id |-> id, body |-> body, user |-> user]}]

\* ProjectStorage.find_comment: the comments named <id>.json, one of which
\* (the first in the order the directories are listed) is returned.
FindComment(tree, id) == {x \in tree.comments : x.id = id}

\* ProjectStorage.delete_comment: the file of (issue, id) is unlinked.
StorageDeleteComment(tree, issue, id) ==
    [tree EXCEPT !.comments = {x \in @ : ~(x.issue = issue /\ x.id = id)}]

\* delete_comment: max(0, issue.comments - 1)
Decremented(n) == IF n - 1 > 0 THEN n - 1 ELSE 0

\* The create_comment route, to its `await ws_manager.broadcast`: sync (origin
\* holds nothing new), 404 without the issue, else the comment gets the next
\* identifier and is written, the issue's count is raised and the issue
\* written, all is committed and pushed and the broadcast of comment:created
\* begins.  No step fails.
CreateComment(c, i) ==
    LET meta == ReadMeta(store)
        id   == Counter(meta, "comment")
        t1   == WriteMeta(store, Incremented(meta, "comment"))
        t2   == WriteCommentBy(t1, i, id, "text", LOCAL_USER)
        t3   == [t2 EXCEPT !.issues[i].comments = @ + 1]
        msg  == Msg("comment:created", i, id, Absent, c)
        b    == Begun(c, msg)
    IN  /\ call[c].pc = "idle"
        /\ c > 1 => call[c-1].pc # "idle"
        /\ GetProjectStorage(cfg, manifest) = "ok" /\ cfg.path = FirstStore
        /\ IF i \notin DOMAIN store.issues
           THEN /\ ret' = [op |-> "create_comment", issue |-> i, val |-> "404"]
                /\ UNCHANGED <<store, head, remote, log, rlog, emitted, bc, call>>
           ELSE /\ store' = t3
                /\ head' = Commit(t3, head)
                /\ remote' = Push(head', remote)
                /\ log' = CommitLog(t3, log)
                /\ rlog' = PushLog(log', rlog, remote.has).rlog
                /\ emitted' = emitted \cup {msg}
                /\ bc' = [bc EXCEPT ![c] = b]
                /\ call' = [call EXCEPT ![c] =
                              [pc |-> IF b.active THEN "creating" ELSE "created",
                               issue |-> i, existing |-> NoSession,
                               store |-> cfg.path]]
                /\ ret' = [op |-> "create_comment", issue |-> i, val |-> "ok"]
        /\ UNCHANGED <<sessions, sess, proc, task, connections, wsState,
                       received, settings, env, client, allocated, projSide, written>>

\* The delete_comment route: sync, 404 if find_comment finds no comment of
\* that id, else the comment's file is deleted, the count of its issue (if
\* the issue exists) lowered and the issue written, all committed and pushed.
DeleteComment(id) ==
    /\ GetProjectStorage(cfg, manifest) = "ok" /\ cfg.path = FirstStore
    /\ IF FindComment(store, id) = {}
       THEN /\ ret' = [op |-> "delete_comment", issue |-> 0, val |-> "404"]
            /\ UNCHANGED <<store, head, remote, log, rlog>>
       ELSE \E x \in FindComment(store, id) :
              LET t1 == StorageDeleteComment(store, x.issue, id)
                  t2 == IF x.issue \in DOMAIN t1.issues
                        THEN [t1 EXCEPT !.issues[x.issue].comments =
                                            Decremented(@)]
                        ELSE t1
              IN  /\ store' = t2
                  /\ head' = Commit(t2, head)
                  /\ remote' = Push(head', remote)
                  /\ log' = CommitLog(t2, log)
                  /\ rlog' = PushLog(log', rlog, remote.has).rlog
                  /\ ret' = [op |-> "delete_comment", issue |-> x.issue,
                             val |-> "ok"]
    /\ UNCHANGED <<sessions, sess, call, proc, task, bc, connections, wsState,
                   received, emitted, settings, env, client, allocated,
                   projSide, written>>

\* ------------------------------------------- documents and their files
\* The values of models.py as the store's callers hold them, and the JSON
\* documents the store keeps of them.  (The requests modelled above keep of
\* each document only the fields they read or set: labels by name, users by
\* login.)  A datetime is one of the instants Times; an optional model
\* (closed_by) is the empty list for None and else the list of the model.
Times == {"t1", "t2"}
SimpleUser(login, user_type) ==
    [login |-> login, id |-> 1, avatar_url |-> "", user_type |-> user_type]
FullLabel(id, name, description, is_default) ==
    [id |-> id, name |-> name, color |-> "ff0000", description |-> description,
     is_default |-> is_default]
Comment(id, body, created_at) ==
    [id |-> id, body |-> body, user |-> SimpleUser(LOCAL_USER, "User"),
     created_at |-> created_at, updated_at |-> created_at,
     author_association |-> "OWNER"]
Issue(number, closed, labels, assignees) ==
    [id |-> number, number |-> number, title |-> "title", body |-> None,
     state |-> IF closed THEN "closed" ELSE "open",
     state_reason |-> IF closed THEN "completed" ELSE None,
     labels |-> labels, assignees |-> assignees, comments |-> 0,
     created_at |-> "t1", updated_at |-> IF closed THEN "t2" ELSE "t1",
     closed_at |-> IF closed THEN "t2" ELSE None,
     closed_by |-> IF closed THEN <<SimpleUser(LOCAL_USER, "User")>> ELSE <<>>,
     author_association |-> "OWNER", user |-> SimpleUser(LOCAL_USER, "User")]

\* What a field that does not validate is taken as.
Invalid == "<invalid>"

\* The outcome of a read: the value validated, None (no such file), or the
\* ValidationError that model_validate raises.
Value(v) == [is |-> "value", value |-> v]
NoValue == [is |-> "None", value |-> <<>>]
ValidationError == [is |-> "ValidationError", value |-> <<>>]

\* datetime to JSON (model_dump(mode="json")) and back (model_validate)
IsoFormat(t) == IF t = "t1" THEN "2024-01-01T00:00:00Z" ELSE "2024-01-02T00:00:00Z"
IsIso(s) == \E t \in Times : IsoFormat(t) = s
ParseIso(s) == CHOOSE t \in Times : IsoFormat(t) = s

\* d.get(name, default) of a JSON object
Field(d, name, default) == IF name \in DOMAIN d THEN d[name] ELSE default

\* model_dump(mode="json"): the fields by their names (not their aliases),
\* datetimes as ISO-8601 text, None as null, models and lists within.
DumpUser(u) == [login |-> u.login, id |-> u.id, avatar_url |-> u.avatar_url,
                user_type |-> u.user_type]
DumpLabel(l) == [id |-> l.id, name |-> l.name, color |-> l.color,
                 description |-> l.description, is_default |-> l.is_default]
DumpComment(c) ==
    [id |-> c.id, body |-> c.body, user |-> DumpUser(c.user),
     created_at |-> IsoFormat(c.created_at),
     updated_at |-> IsoFormat(c.updated_at),
     author_association |-> c.author_association]
DumpIssue(i) ==
    [id |-> i.id, number |-> i.number, title |-> i.title, body |-> i.body,
     state |-> i.state, state_reason |-> i.state_reason,
     labels |-> [n \in DOMAIN i.labels |-> DumpLabel(i.labels[n])],
     assignees |-> [n \in DOMAIN i.assignees |-> DumpUser(i.assignees[n])],
     comments |-> i.comments,
     created_at |-> IsoFormat(i.created_at),
     updated_at |-> IsoFormat(i.updated_at),
     closed_at |-> IF i.closed_at = None THEN None ELSE IsoFormat(i.closed_at),
     closed_by |-> [n \in DOMAIN i.closed_by |-> DumpUser(i.closed_by[n])],
     author_association |-> i.author_association, user |-> DumpUser(i.user)]

\* SimpleUser.user_type = Field(alias="type") with populate_by_name: the
\* value under the alias, else under the field's name
UserTypeOf(d) == IF "type" \in DOMAIN d THEN d.type
                 ELSE Field(d, "user_type", Invalid)

\* model_validate: the required fields must be there, the others take their
\* defaults; a field with an alias is taken by alias or by name
\* (populate_by_name); ISO-8601 text becomes a datetime.
ValidUser(d) == {"login", "id", "avatar_url"} \subseteq DOMAIN d
                /\ UserTypeOf(d) # Invalid
ValidateUser(d) == [login |-> d.login, id |-> d.id, avatar_url |-> d.avatar_url,
                    user_type |-> UserTypeOf(d)]
ValidLabel(d) == {"id", "name", "color"} \subseteq DOMAIN d
ValidateLabel(d) ==
    [id |-> d.id, name |-> d.name, color |-> d.color,
     description |-> Field(d, "description", None),
     is_default |-> IF "default" \in DOMAIN d THEN d.default
                    ELSE Field(d, "is_default", FALSE)]
ValidComment(d) ==
    /\ {"id", "body", "user", "created_at", "updated_at"} \subseteq DOMAIN d
    /\ ValidUser(d.user) /\ IsIso(d.created_at) /\ IsIso(d.updated_at)
ValidateComment(d) ==
    [id |-> d.id, body |-> d.body, user |-> ValidateUser(d.user),
     created_at |-> ParseIso(d.created_at),
     updated_at |-> ParseIso(d.updated_at),
     author_association |-> Field(d, "author_association", "OWNER")]
ValidIssue(d) ==
    /\ {"id", "number", "title", "created_at", "updated_at", "user"}
          \subseteq DOMAIN d
    /\ ValidUser(d.user) /\ IsIso(d.created_at) /\ IsIso(d.updated_at)
    /\ \A n \in DOMAIN Field(d, "labels", <<>>) : ValidLabel(d.labels[n])
    /\ \A n \in DOMAIN Field(d, "assignees", <<>>) : ValidUser(d.assignees[n])
    /\ Field(d, "closed_at", None) # None => IsIso(d.closed_at)
    /\ \A n \in DOMAIN Field(d, "closed_by", <<>>) : ValidUser(d.closed_by[n])
ValidateIssue(d) ==
    [id |-> d.id, number |-> d.number, title |-> d.title,
     body |-> Field(d, "body", None), state |-> Field(d, "state", "open"),
     state_reason |-> Field(d, "state_reason", None),
     labels |-> [n \in DOMAIN Field(d, "labels", <<>>) |->
                   ValidateLabel(d.labels[n])],
     assignees |-> [n \in DOMAIN Field(d, "assignees", <<>>) |->
                      ValidateUser(d.assignees[n])],
     comments |-> Field(d, "comments", 0),
     created_at |-> ParseIso(d.created_at),
     updated_at |-> ParseIso(d.updated_at),
     closed_at |-> IF Field(d, "closed_at", None) = None THEN None
                   ELSE ParseIso(d.closed_at),
     closed_by |-> [n \in DOMAIN Field(d, "closed_by", <<>>) |->
                      ValidateUser(d.closed_by[n])],
     author_association |-> Field(d, "author_association", "OWNER"),
     user |-> ValidateUser(d.user)]

\* ProjectStorage.read_issue: None without the file, else the document
\* validated
ReadIssue(tree, number) ==
    IF number \notin DOMAIN tree.issues THEN NoValue
    ELSE IF ValidIssue(tree.issues[number])
    THEN Value(ValidateIssue(tree.issues[number])) ELSE ValidationError

\* ProjectStorage.write_comment of a whole Comment: the file
\* comments/<issue>/<comment.id>.json holds its dump
WriteCommentDoc(tree, issue, comment) ==
    [tree EXCEPT !.comments =
        {x \in tree.comments : ~(x.issue = issue /\ x.id = comment.id)}
        \cup {[issue |-> issue, id |-> comment.id,
               doc |-> DumpComment(comment)]}]

\* ProjectStorage.read_comment
ReadComment(tree, issue, id) ==
    LET files == {x \in tree.comments : x.issue = issue /\ x.id = id}
        doc   == (CHOOSE x \in files : TRUE).doc
    IN  IF files = {} THEN NoValue
        ELSE IF ValidComment(doc) THEN Value(ValidateComment(doc))
        ELSE ValidationError

\* ProjectStorage.write_labels: labels.json holds the dump of every label
WriteLabelDocs(tree, labels) ==
    [tree EXCEPT !.labels = [n \in DOMAIN labels |-> DumpLabel(labels[n])]]

\* ProjectStorage.read_labels
ReadLabels(tree) ==
    IF \A n \in DOMAIN tree.labels : ValidLabel(tree.labels[n])
    THEN Value([n \in DOMAIN tree.labels |-> ValidateLabel(tree.labels[n])])
    ELSE ValidationError

\* The values the callers of SpecRoundTrip write.
IssueValues ==
    {Issue(n, FALSE, <<>>, <<>>) : n \in Issues} \cup
    {Issue(n, TRUE, <<FullLabel(1, "bug", "a bug", TRUE)>>,
           <<SimpleUser("alice", "User")>>) : n \in Issues}
CommentValues == {Comment(1, "first", "t1"), Comment(1, "edited", "t2")}
LabelLists == {<<FullLabel(1, "bug", None, FALSE)>>,
               <<FullLabel(1, "bug", "a bug", TRUE),
                 FullLabel(2, "feature", None, FALSE)>>}

\* write_issue(issue), by a caller of the store
WriteIssueCall(issue) ==
    /\ written.writes < MaxWrites
    /\ store' = WriteIssue(store, issue.number, DumpIssue(issue))
    /\ written' = [written EXCEPT !.issues = (issue.number :> issue) @@ @,
                                  !.writes = @ + 1]
    /\ ret' = [op |-> "write_issue", issue |-> issue.number, val |-> "ok"]
    /\ UNCHANGED <<sessions, sess, call, proc, task, bc, connections, wsState,
                   received, emitted, settings, head, remote, env, storeSide,
                   projSide>>

\* read_issue(number), of an issue written before
ReadIssueCall(number) ==
    /\ number \in DOMAIN written.issues
    /\ ret' = [op |-> "read_issue", issue |-> number,
               val |-> ReadIssue(store, number)]
    /\ UNCHANGED <<sessions, sess, call, proc, task, bc, connections, wsState,
                   received, emitted, settings, store, head, remote, env,
                   storeSide, projSide, written>>

\* write_comment(issue_number, comment)
WriteCommentCall(issue, comment) ==
    /\ written.writes < MaxWrites
    /\ store' = WriteCommentDoc(store, issue, comment)
    /\ written' = [written EXCEPT
                     !.comments = (<<issue, comment.id>> :> comment) @@ @,
                     !.writes = @ + 1]
    /\ ret' = [op |-> "write_comment", issue |-> issue, val |-> "ok"]
    /\ UNCHANGED <<sessions, sess, call, proc, task, bc, connections, wsState,
                   received, emitted, settings, head, remote, env, storeSide,
                   projSide>>

\* read_comment(issue_number, comment_id), of a comment written before
ReadCommentCall(issue, id) ==
    /\ <<issue, id>> \in DOMAIN written.comments
    /\ ret' = [op |-> "read_comment", issue |-> issue, id |-> id,
               val |-> ReadComment(store, issue, id)]
    /\ UNCHANGED <<sessions, sess, call, proc, task, bc, connections, wsState,
                   received, emitted, settings, store, head, remote, env,
                   storeSide, projSide, written>>

\* write_labels(labels)
WriteLabelsCall(labels) ==
    /\ written.writes < MaxWrites
    /\ store' = WriteLabelDocs(store, labels)
    /\ written' = [written EXCEPT !.labels = labels, !.writes = @ + 1]
    /\ ret' = [op |-> "write_labels", issue |-> 0, val |-> "ok"]
    /\ UNCHANGED <<sessions, sess, call, proc, task, bc, connections, wsState,
                   received, emitted, settings, head, remote, env, storeSide,
                   projSide>>

\* read_labels(), after labels were written
ReadLabelsCall ==
    /\ written.labels # NotWritten
    /\ ret' = [op |-> "read_labels", issue |-> 0, val |-> ReadLabels(store)]
    /\ UNCHANGED <<sessions, sess, call, proc, task, bc, connections, wsState,
                   received, emitted, settings, store, head, remote, env,
                   storeSide, projSide, written>>

\* ------------------------------------------------ get_status, list_sessions
\* AmplifierSessionInfo of a session object (of the fields the model keeps)
Info(s) == [issue_number |-> s.issue_number, status |-> s.status,
            finished_at |-> s.finished_at, error |-> s.error]

\* mutant of StatusInfo: None unless the session is running
StatusInfoIfRunning(key) ==
    IF sessions[key] = NoSession \/ sess[sessions[key]].status # "running"
    THEN NoValue ELSE Value(Info(sess[sessions[key]]))
\* get_status: None if self.sessions has no session under the key, else
\* the info of the session
StatusInfo(key) ==
    IF sessions[key] = NoSession THEN NoValue
    ELSE Value(Info(sess[sessions[key]]))

\* list_sessions: the info of every value of self.sessions; the model gives
\* each entry of the list under the key whose value it is of.
SessionInfos ==
    [k \in {k \in Keys : sessions[k] # NoSession} |-> Info(sess[sessions[k]])]

\* GET /projects/{name}/issues/{number}/amplifier: manager.get_status
GetStatus(i) ==
    /\ ret' = [op |-> "get_status", issue |-> i,
               val |-> StatusInfo(Key(Project, i))]
    /\ UNCHANGED <<sessions, sess, call, proc, task, bc, connections, wsState,
                   received, emitted, settings, store, head, remote, env,
                   storeSide, projSide, written>>

\* GET /amplifier/sessions: manager.list_sessions
ListSessions ==
    /\ ret' = [op |-> "list_sessions", issue |-> 0, val |-> Value(SessionInfos)]
    /\ UNCHANGED <<sessions, sess, call, proc, task, bc, connections, wsState,
                   received, emitted, settings, store, head, remote, env,
                   storeSide, projSide, written>>

\* ------------------------------------------------------------ _extract_json
\* A text is the list of its tokens: "{", "}", "k:" (a key and its colon),
\* "1" (a JSON value that is no object), " " (white space) and "x" (anything
\* else: an escape sequence, a word of a log line).
Tokens == {"{", "}", "k:", "1", " ", "x"}
RECURSIVE TextsOf(_)
TextsOf(n) == IF n = 0 THEN {<<>>}
              ELSE TextsOf(n - 1) \cup
                   {Append(t, k) : t \in {u \in TextsOf(n - 1) : Len(u) = n - 1},
                                   k \in Tokens}
Texts == TextsOf(MaxText)

\* json.loads raises JSONDecodeError
JSONDecodeError == [is |-> "JSONDecodeError", value |-> <<>>]

\* The JSON decoder, on a text without its white space: the position after
\* the value that begins at position i, or 0 if none begins there.  An
\* object is {} or {k: value}.
RECURSIVE ValueEnd(_, _)
ValueEnd(t, i) ==
    IF i > Len(t) THEN 0
    ELSE IF t[i] = "1" THEN i + 1
    ELSE IF t[i] # "{" \/ i + 1 > Len(t) THEN 0
    ELSE IF t[i + 1] = "}" THEN i + 2
    ELSE IF t[i + 1] # "k:" THEN 0
    ELSE LET e == ValueEnd(t, i + 2)
         IN  IF e # 0 /\ e <= Len(t) /\ t[e] = "}" THEN e + 1 ELSE 0

\* json.loads(text): the value the whole text is (given by its tokens
\* without the white space), or JSONDecodeError
Loads(text) ==
    LET t == SelectSeq(text, LAMBDA k : k # " ")
    IN  IF ValueEnd(t, 1) = Len(t) + 1 THEN Value(t) ELSE JSONDecodeError

\* isinstance(data, dict), of what json.loads gave
IsDict(data) == data.is = "value" /\ data.value[1] = "{"

\* the loop of _extract_json, from position i down to the first
RECURSIVE ScanBack(_, _)
ScanBack(text, i) ==
    IF i < 1 THEN NoValue
    ELSE IF text[i] = "{" /\ IsDict(Loads(SubSeq(text, i, Len(text))))
    THEN Loads(SubSeq(text, i, Len(text)))
    ELSE ScanBack(text, i - 1)

\* mutant of ExtractJson: whatever the whole text parses to is returned
ExtractJsonAnyValue(text) ==
    IF Loads(text).is = "value" THEN Loads(text) ELSE ScanBack(text, Len(text))
\* _extract_json
ExtractJson(text) ==
    IF IsDict(Loads(text)) THEN Loads(text) ELSE ScanBack(text, Len(text))

\* _wait: parsed = _extract_json(stdout_bytes.decode()), of a stdout text
ExtractJsonCall(text) ==
    /\ ret' = [op |-> "extract_json", issue |-> 0, val |-> ExtractJson(text)]
    /\ UNCHANGED <<sessions, sess, call, proc, task, bc, connections, wsState,
                   received, emitted, settings, store, head, remote, env,
                   storeSide, projSide, written>>

\* --------------------------------------------------------------- list_issues
\* IssueFilters: the query parameters of a listing.  Text that is split
\* (labels) is the list of its tokens: a label name, "," or " "; an optional
\* text is the empty list for None and else the list of the text.
IssueFilters(state, labels, assignee, sort, direction, page, per_page) ==
    [state |-> state, labels |-> labels, assignee |-> assignee, sort |-> sort,
     direction |-> direction, page |-> page, per_page |-> per_page]

\* The text of a label name: no token for "", else the name.
Text(name) == IF name = "" THEN <<>> ELSE <<name>>

\* text.split(",")
RECURSIVE Split(_)
Split(text) ==
    IF \A n \in DOMAIN text : text[n] # "," THEN <<text>>
    ELSE LET k == CHOOSE n \in DOMAIN text :
                    text[n] = "," /\ \A m \in 1..(n - 1) : text[m] # ","
         IN  <<SubSeq(text, 1, k - 1)>> \o Split(SubSeq(text, k + 1, Len(text)))

\* name.strip()
RECURSIVE Strip(_)
Strip(text) ==
    IF text # <<>> /\ Head(text) = " " THEN Strip(Tail(text))
    ELSE IF text # <<>> /\ text[Len(text)] = " "
    THEN Strip(SubSeq(text, 1, Len(text) - 1))
    ELSE text

\* {name.strip() for name in filters.labels.split(",")}
Required(text) == {Strip(Split(text)[n]) : n \in DOMAIN Split(text)}

\* {label.name for label in i.labels}
NamesOf(i) == {Text(i.labels[n].name) : n \in DOMAIN i.labels}

\* mutant of HasLabels: one of the required names is enough
HasSomeLabel(i, required) == required \cap NamesOf(i) # {}
\* required <= {label.name for label in i.labels}
HasLabels(i, required) == required \subseteq NamesOf(i)

\* The three filters of list_issues, applied in turn.
ByState(issues, state) ==
    IF state # None /\ state # "" /\ state # "all"
    THEN SelectSeq(issues, LAMBDA i : i.state = state) ELSE issues
ByLabels(issues, labels) ==
    IF labels # <<>> /\ labels[1] # <<>>
    THEN SelectSeq(issues, LAMBDA i : HasLabels(i, Required(labels[1])))
    ELSE issues
ByAssignee(issues, assignee) ==
    IF assignee = None THEN issues
    ELSE IF assignee = "none"
    THEN SelectSeq(issues, LAMBDA i : i.assignees = <<>>)
    ELSE IF assignee = "*"
    THEN SelectSeq(issues, LAMBDA i : i.assignees # <<>>)
    ELSE SelectSeq(issues, LAMBDA i :
             \E n \in DOMAIN i.assignees : i.assignees[n].login = assignee)
Filtered(issues, filters) ==
    ByAssignee(ByLabels(ByState(issues, filters.state), filters.labels),
               filters.assignee)

\* The order of two datetimes, and the key that list.sort() compares.
Instant(t) == IF t = "t1" THEN 1 ELSE 2
SortKey(i, sort_key) ==
    IF sort_key = "updated" THEN Instant(i.updated_at)
    ELSE IF sort_key = "comments" THEN i.comments
    ELSE Instant(i.created_at)

\* list.sort(key=...): ascending and stable.  The place of an element is
\* one more than the number of elements with a lesser key, or with an equal
\* key and an earlier place before the sort.
Place(issues, n, sort_key) ==
    1 + Cardinality({m \in DOMAIN issues :
            \/ SortKey(issues[m], sort_key) < SortKey(issues[n], sort_key)
            \/ /\ SortKey(issues[m], sort_key) = SortKey(issues[n], sort_key)
               /\ m < n})
Sort(issues, sort_key) ==
    [p \in DOMAIN issues |->
        issues[CHOOSE n \in DOMAIN issues : Place(issues, n, sort_key) = p]]

\* mutant of Reverse: the list is left as it is
ReverseNot(s) == s
\* list.reverse()
Reverse(s) == [n \in DOMAIN s |-> s[Len(s) + 1 - n]]

\* The listing sorted: by the key, then reversed if direction is "desc".
Sorted(issues, filters) ==
    IF filters.direction = "desc" THEN Reverse(Sort(issues, filters.sort))
    ELSE Sort(issues, filters.sort)

\* s[start:stop]: a negative index counts from the end, and both are
\* brought into 0..len(s)
SliceIndex(s, i) == IF i < 0 THEN (IF i + Len(s) < 0 THEN 0 ELSE i + Len(s))
                    ELSE IF i > Len(s) THEN Len(s) ELSE i
Slice(s, start, stop) ==
    IF SliceIndex(s, start) < SliceIndex(s, stop)
    THEN SubSeq(s, SliceIndex(s, start) + 1, SliceIndex(s, stop)) ELSE <<>>

Min(a, b) == IF a < b THEN a ELSE b
Max(a, b) == IF a > b THEN a ELSE b

\* ProjectStorage.list_issues, of the issues in the order glob() gave them
ListIssues(issues, filters) ==
    LET matching == Filtered(issues, filters)
        per_page == Min(filters.per_page, 100)
        page     == Max(filters.page, 1)
        offset   == (page - 1) * per_page
    IN  [items |-> Slice(Sorted(matching, filters), offset, offset + per_page),
         total_count |-> Len(matching), page |-> page, per_page |-> per_page]

\* Orders in which glob("*.json") may give the files of a directory: the
\* numbers ascending, begun at any of them and wrapped around, forwards or
\* backwards (of up to three files, these are all the orders there are).
Ascending(numbers) ==
    [p \in 1..Cardinality(numbers) |->
        CHOOSE n \in numbers : Cardinality({m \in numbers : m < n}) = p - 1]
GlobOrders(numbers) ==
    LET asc == Ascending(numbers)
        k   == Cardinality(numbers)
        fwd == {[p \in 1..k |-> asc[((p - 1 + r) % k) + 1]] : r \in 0..(k - 1)}
    IN  IF k = 0 THEN {<<>>} ELSE fwd \cup {Reverse(o) : o \in fwd}

\* The issues and the queries of SpecFilter and SpecPage.
Bug == FullLabel(1, "bug", None, FALSE)
Feature == FullLabel(2, "feature", None, FALSE)
Alice == SimpleUser("alice", "User")
Bob == SimpleUser("bob", "User")
Listed ==
    UNION {{Issue(n, FALSE, <<Bug>>, <<>>),
            [Issue(n, FALSE, <<Bug, Feature>>, <<Alice>>)
                EXCEPT !.created_at = "t2", !.updated_at = "t2", !.comments = 1],
            Issue(n, TRUE, <<Feature>>, <<Alice, Bob>>)}
           : n \in 1..MaxWrites}
LabelQueries ==
    {<<>>, <<<<>>>>, <<<<"bug">>>>, <<<<"bug", ",", "feature">>>>,
     <<<<"bug", ",", " ", "feature", " ">>>>, <<<<"bug", ",">>>>}

\* The number of the next issue: the least that these callers have not
\* written.
NextNumber ==
    CHOOSE n \in 1..(MaxWrites + 1) :
        n \notin DOMAIN written.issues /\ \A m \in 1..(n - 1) : m \in DOMAIN written.issues
FilterQueries ==
    {IssueFilters(state, labels, assignee, "created", "desc", 1, 30) :
        state \in {None, "", "all", "open", "closed"}, labels \in LabelQueries,
        assignee \in {None, "none", "*", "alice"}}
PageQueries ==
    {IssueFilters(state, <<>>, None, sort, direction, page, per_page) :
        state \in {"all", "open"},
        sort \in {"created", "updated", "comments", "title"},
        direction \in {"asc", "desc"}, page \in -1..3,
        per_page \in {-1, 0, 1, 2, 100}}

\* GET /issues (storage.list_issues(filters)), of a store whose issue files
\* these callers wrote; glob() gives the files in the order `order`, each once
ListIssuesCall(order, filters) ==
    /\ DOMAIN store.issues \subseteq DOMAIN written.issues
    /\ Len(order) = Cardinality(DOMAIN store.issues)
    /\ {order[n] : n \in DOMAIN order} = DOMAIN store.issues
    /\ ret' = [op |-> "list_issues", issue |-> 0, filters |-> filters,
               val |-> IF \A n \in DOMAIN store.issues :
                              ValidIssue(store.issues[n])
                       THEN Value(ListIssues(
                                [n \in DOMAIN order |->
                                    ValidateIssue(store.issues[order[n]])],
                                filters))
                       ELSE ValidationError]
    /\ UNCHANGED <<sessions, sess, call, proc, task, bc, connections, wsState,
                   received, emitted, settings, store, head, remote, env,
                   storeSide, projSide, written>>

\* -------------------------------------------------------------- delete_issue
\* mutant of DeleteIssue: the comments of every issue are removed
DeleteIssueAndAllComments(tree, number) ==
    [tree EXCEPT !.issues = [n \in DOMAIN @ \ {number} |-> @[n]],
                 !.comments = {}]
\* ProjectStorage.delete_issue: issues/<number>.json is unlinked if it
\* exists, and every file of comments/<number>/ with the directory if that
\* exists.
DeleteIssue(tree, number) ==
    [tree EXCEPT !.issues = [n \in DOMAIN @ \ {number} |-> @[n]],
                 !.comments = {x \in @ : x.issue # number}]

\* The issue numbers of SpecDelete, and the issues written there.
Numbers == 1..(NumIssues + 1)
Rewritten == {Issue(n, FALSE, <<Bug>>, <<>>) : n \in Numbers}

\* delete_issue(number), by a caller of the store
DeleteIssueCall(number) ==
    /\ store' = DeleteIssue(store, number)
    /\ ret' = [op |-> "delete_issue", issue |-> number, val |-> "ok"]
    /\ UNCHANGED <<sessions, sess, call, proc, task, bc, connections, wsState,
                   received, emitted, settings, head, remote, env, storeSide,
                   projSide, written>>

\* ------------------------------------- a mutating handler that raises
\* The steps of create_issue, update_issue and create_comment that may raise,
\* in the order the handlers run them: sync, the read of the issue or the
\* allocation of the identifier, the writes, commit and push.  None is inside
\* a try.
HandlerSteps == <<"sync", "read", "write", "commit", "push">>

\* What a handler makes of the store: the tree once the identifier is
\* allocated and the tree once everything is written.  update_issue closes
\* the issue here.
Planned(op, number) ==
    IF op = "create_issue"
    THEN LET n == NextIssueId(store)
         IN  [allocated |-> n.tree,
              written |-> WriteIssue(n.tree, n.id, NewIssue(<<>>, <<>>))]
    ELSE IF op = "create_comment"
    THEN LET meta == ReadMeta(store)
             t1   == WriteMeta(store, Incremented(meta, "comment"))
             t2   == WriteCommentBy(t1, number, Counter(meta, "comment"),
                                    "text", LOCAL_USER)
         IN  [allocated |-> t1,
              written |-> [t2 EXCEPT !.issues[number].comments = @ + 1]]
    ELSE [allocated |-> store,
          written |-> WriteIssue(store, number,
                         Updated(store.issues[number],
                                 [state |-> "closed", state_reason |-> None,
                                  labels |-> None, assignees |-> None],
                                 store.labels))]

\* A create_issue, update_issue or create_comment request in which the step
\* HandlerSteps[n] raises: the steps before it have been made, the exception
\* leaves the handler, and its broadcast is never reached.
RequestRaises(c, op, number, n) ==
    LET plan == Planned(op, number)
        t    == IF n <= 2 THEN store
                ELSE IF n = 3 THEN plan.allocated ELSE plan.written
    IN  /\ call[c].pc = "idle"
        /\ c > 1 => call[c-1].pc # "idle"
        /\ GetProjectStorage(cfg, manifest) = "ok" /\ cfg.path = FirstStore
        /\ op = "create_issue" \/ number \in DOMAIN store.issues
        /\ store' = t
        /\ head' = IF HandlerSteps[n] = "push" THEN Commit(t, head) ELSE head
        /\ log' = IF HandlerSteps[n] = "push" THEN CommitLog(t, log) ELSE log
        /\ call' = [call EXCEPT ![c] = [pc |-> "raised", issue |-> number,
                                        existing |-> NoSession,
                                        store |-> cfg.path]]
        /\ ret' = [op |-> op, issue |-> number, val |-> "raised"]
        /\ UNCHANGED <<sessions, sess, proc, task, bc, connections, wsState,
                       received, emitted, settings, remote, rlog, env, client,
                       allocated, projSide, written>>

\* --------------------------------- create_label, update_label, delete_label
LabelNames == {"bug", "feature"}

\* max((label.id for label in labels), default=0)
MaxId(labels) ==
    IF labels = <<>> THEN 0
    ELSE CHOOSE m \in {labels[n].id : n \in DOMAIN labels} :
            \A n \in DOMAIN labels : labels[n].id <= m

\* [x for x in seq if keep(x)], for the elements kept by name
RECURSIVE Without(_, _)
Without(names, name) ==
    IF names = <<>> THEN <<>>
    ELSE IF Head(names) = name THEN Without(Tail(names), name)
    ELSE <<Head(names)>> \o Without(Tail(names), name)

\* delete_label: [label for label in labels if label.name != label_name]
RECURSIVE WithoutLabel(_, _)
WithoutLabel(labels, name) ==
    IF labels = <<>> THEN <<>>
    ELSE IF Head(labels).name = name THEN WithoutLabel(Tail(labels), name)
    ELSE <<Head(labels)>> \o WithoutLabel(Tail(labels), name)

\* mutant of Renamed: the issues keep the old name
RenamedNowhere(names, old_name, new_name) == names
\* update_label: every label of an issue named old_name is renamed
Renamed(names, old_name, new_name) ==
    [n \in DOMAIN names |-> IF names[n] = old_name THEN new_name ELSE names[n]]

\* The create_label route: sync, 409 if a label has the name, else the label
\* is appended with the next id and labels.json written, committed, pushed.
CreateLabel(name) ==
    LET labels == store.labels
        t == [store EXCEPT !.labels = Append(labels, Label(MaxId(labels) + 1, name))]
    IN  /\ GetProjectStorage(cfg, manifest) = "ok" /\ cfg.path = FirstStore
        /\ Len(labels) < MaxLabels /\ Len(log) <= MaxEdits
        /\ IF \E n \in DOMAIN labels : labels[n].name = name
           THEN /\ ret' = [op |-> "create_label", issue |-> 0, val |-> "409"]
                /\ UNCHANGED <<store, head, remote, log, rlog>>
           ELSE /\ store' = t
                /\ head' = Commit(t, head)
                /\ remote' = Push(head', remote)
                /\ log' = CommitLog(t, log)
                /\ rlog' = PushLog(log', rlog, remote.has).rlog
                /\ ret' = [op |-> "create_label", issue |-> 0, val |-> "ok"]
        /\ UNCHANGED <<sessions, sess, call, proc, task, bc, connections,
                       wsState, received, emitted, settings, env, client,
                       allocated, projSide, written>>

\* The update_label route: sync, 404 if no label has the name, else the first
\* label of that name takes new_name (None: none given); if its name changed
\* every issue that carries the old name is rewritten; labels.json is
\* written, all committed and pushed.
UpdateLabel(label_name, new_name) ==
    LET labels == store.labels
        hits   == {n \in DOMAIN labels : labels[n].name = label_name}
        target == CHOOSE n \in hits : \A m \in hits : n <= m
        name   == IF new_name # None THEN new_name ELSE label_name
        t == [store EXCEPT
                !.labels = [labels EXCEPT ![target].name = name],
                !.issues = [i \in DOMAIN store.issues |->
                              [store.issues[i] EXCEPT
                                 !.labels = Renamed(@, label_name, name)]]]
    IN  /\ GetProjectStorage(cfg, manifest) = "ok" /\ cfg.path = FirstStore
        /\ Len(log) <= MaxEdits
        /\ IF hits = {}
           THEN /\ ret' = [op |-> "update_label", issue |-> 0, val |-> "404"]
                /\ UNCHANGED <<store, head, remote, log, rlog>>
           ELSE /\ store' = t
                /\ head' = Commit(t, head)
                /\ remote' = Push(head', remote)
                /\ log' = CommitLog(t, log)
                /\ rlog' = PushLog(log', rlog, remote.has).rlog
                /\ ret' = [op |-> "update_label", issue |-> 0, val |-> "ok"]
        /\ UNCHANGED <<sessions, sess, call, proc, task, bc, connections,
                       wsState, received, emitted, settings, env, client,
                       allocated, projSide, written>>

\* The delete_label route: sync, 404 if no label has the name, else every
\* label of that name is dropped from labels.json and from every issue, all
\* committed and pushed.
DeleteLabel(label_name) ==
    LET labels == store.labels
        t == [store EXCEPT
                !.labels = WithoutLabel(labels, label_name),
                !.issues = [i \in DOMAIN store.issues |->
                              [store.issues[i] EXCEPT
                                 !.labels = Without(@, label_name)]]]
    IN  /\ GetProjectStorage(cfg, manifest) = "ok" /\ cfg.path = FirstStore
        /\ Len(log) <= MaxEdits
        /\ IF Len(WithoutLabel(labels, label_name)) = Len(labels)
           THEN /\ ret' = [op |-> "delete_label", issue |-> 0, val |-> "404"]
                /\ UNCHANGED <<store, head, remote, log, rlog>>
           ELSE /\ store' = t
                /\ head' = Commit(t, head)
                /\ remote' = Push(head', remote)
                /\ log' = CommitLog(t, log)
                /\ rlog' = PushLog(log', rlog, remote.has).rlog
                /\ ret' = [op |-> "delete_label", issue |-> 0, val |-> "ok"]
        /\ UNCHANGED <<sessions, sess, call, proc, task, bc, connections,
                       wsState, received, emitted, settings, env, client,
                       allocated, projSide, written>>

\* ------------------------------------------ the labels of one issue
\* add_labels_to_issue, its loop: a requested name is appended if
\* labels.json knows it and the issue does not hold it yet.
RECURSIVE AddLabels(_, _, _)
AddLabels(held, labels, names) ==
    IF names = <<>> THEN held
    ELSE IF /\ \E n \in DOMAIN labels : labels[n].name = Head(names)
            /\ \A n \in DOMAIN held : held[n] # Head(names)
         THEN AddLabels(Append(held, Head(names)), labels, Tail(names))
         ELSE AddLabels(held, labels, Tail(names))

\* An issue-level label route that found its issue: the issue is written
\* with the labels `held`, committed and pushed.
IssueLabelsWritten(op, number, held) ==
    LET t == [store EXCEPT !.issues[number].labels = held]
    IN  /\ store' = t
        /\ head' = Commit(t, head)
        /\ remote' = Push(head', remote)
        /\ log' = CommitLog(t, log)
        /\ rlog' = PushLog(log', rlog, remote.has).rlog
        /\ ret' = [op |-> op, issue |-> number, val |-> "ok"]

\* An issue-level label route that raises 404: nothing is written.
IssueLabels404(op, number) ==
    /\ ret' = [op |-> op, issue |-> number, val |-> "404"]
    /\ UNCHANGED <<store, head, remote, log, rlog>>

\* The add_labels_to_issue route: sync, 404 without the issue.
AddLabelsToIssue(number, names) ==
    /\ GetProjectStorage(cfg, manifest) = "ok" /\ cfg.path = FirstStore
    /\ Len(log) <= MaxEdits
    /\ IF number \notin DOMAIN store.issues
       THEN IssueLabels404("add_labels_to_issue", number)
       ELSE IssueLabelsWritten("add_labels_to_issue", number,
                AddLabels(store.issues[number].labels, store.labels, names))
    /\ UNCHANGED <<sessions, sess, call, proc, task, bc, connections,
                   wsState, received, emitted, settings, env, client,
                   allocated, projSide, written>>

\* The replace_issue_labels route: the requested names that labels.json
\* knows replace the issue's labels.
ReplaceIssueLabels(number, names) ==
    /\ GetProjectStorage(cfg, manifest) = "ok" /\ cfg.path = FirstStore
    /\ Len(log) <= MaxEdits
    /\ IF number \notin DOMAIN store.issues
       THEN IssueLabels404("replace_issue_labels", number)
       ELSE IssueLabelsWritten("replace_issue_labels", number,
                ResolveLabels(store.labels, names))
    /\ UNCHANGED <<sessions, sess, call, proc, task, bc, connections,
                   wsState, received, emitted, settings, env, client,
                   allocated, projSide, written>>

\* The remove_all_issue_labels route
RemoveAllIssueLabels(number) ==
    /\ GetProjectStorage(cfg, manifest) = "ok" /\ cfg.path = FirstStore
    /\ Len(log) <= MaxEdits
    /\ IF number \notin DOMAIN store.issues
       THEN IssueLabels404("remove_all_issue_labels", number)
       ELSE IssueLabelsWritten("remove_all_issue_labels", number, <<>>)
    /\ UNCHANGED <<sessions, sess, call, proc, task, bc, connections,
                   wsState, received, emitted, settings, env, client,
                   allocated, projSide, written>>

\* The remove_label_from_issue route: 404 also if the issue does not hold
\* the label.
RemoveLabelFromIssue(number, label) ==
    /\ GetProjectStorage(cfg, manifest) = "ok" /\ cfg.path = FirstStore
    /\ Len(log) <= MaxEdits
    /\ IF number \notin DOMAIN store.issues
       THEN IssueLabels404("remove_label_from_issue", number)
       ELSE IF Len(Without(store.issues[number].labels, label))
                 = Len(store.issues[number].labels)
       THEN IssueLabels404("remove_label_from_issue", number)
       ELSE IssueLabelsWritten("remove_label_from_issue", number,
                Without(store.issues[number].labels, label))
    /\ UNCHANGED <<sessions, sess, call, proc, task, bc, connections,
                   wsState, received, emitted, settings, env, client,
                   allocated, projSide, written>>

\* ------------------------------------------------- the project's store
\* connect_store, from the return of `await client.repo_exists` (true): the
\* repository is cloned into a new store directory, whose manifest carries
\* the store_id the repository records or else a new one; the project's
\* configuration is pointed at it.
ConnectStore(id) ==
    /\ \E d \in Dirs : manifest[d] = NoDir
    /\ LET d == CHOOSE x \in Dirs :
                 manifest[x] = NoDir /\ \A y \in 1..(x-1) : manifest[y] # NoDir
       IN  /\ manifest' = [manifest EXCEPT ![d] = id]
           /\ cfg' = [store_id |-> id, path |-> d, github |-> TRUE]
    /\ ret' = [op |-> "connect_store", issue |-> 0, val |-> "ok"]
    /\ UNCHANGED <<sessions, sess, call, proc, task, bc, connections, wsState,
                   received, emitted, settings, store, head, remote, env,
                   storeSide, written>>

\* sync_store: ProjectStorage(config.store.path) without get_project_storage;
\* sync() and push(), what they raise is swallowed.  On the first store
\* origin holds nothing new (only this server pushes to it) and takes what
\* is committed; of a clone's contents the model keeps nothing.
SyncStore ==
    /\ cfg.github
    /\ IF cfg.path = FirstStore
       THEN LET sy == Sync(store, log, rlog, remote.has)
                pu == PushLog(sy.log, rlog, remote.has)
            IN  /\ store' = sy.tree
                /\ log' = sy.log
                /\ head' = Last(sy.log)
                /\ rlog' = pu.rlog
                /\ remote' = IF pu.raised THEN remote ELSE Push(head', remote)
       ELSE UNCHANGED <<store, log, head, rlog, remote>>
    /\ ret' = [op |-> "sync_store", issue |-> cfg.path, val |-> "ok"]
    /\ UNCHANGED <<sessions, sess, call, proc, task, bc, connections, wsState,
                   received, emitted, settings, env, client, allocated,
                   projSide, written>>

\* ------------------------------------------------------------------ spec
Lifecycle ==
    \/ \E c \in Calls, i \in Issues : RunCheck(c, i)
    \/ \E c \in Calls : RunSpawnFails(c)
    \/ \E c \in Calls : RunSpawned(c)
    \/ \E c \in Calls, ok \in BOOLEAN : Send(c, ok)
    \/ \E p \in Calls : ProcExit(p)
    \/ \E c \in Calls : TaskStart(c)
    \/ \E c \in Calls : TaskResume(c)
    \/ \E l \in Listeners : Connect(l)
    \/ \E l \in Listeners : ClientDisconnect(l)

Answer == [parsed |-> Dict("success", "answer", Absent), stderr |-> ""]

\* Concurrent run() calls and their supervising tasks: the subprocesses
\* answer or leave nothing, no write-back step raises, one client connects
\* (enough for every broadcast to suspend in a send).
Init == InitIn([calls |-> MaxCalls, listeners |-> 1,
                outputs |-> {Answer, EmptyOutput}, failures |-> {NoFailure},
                remotes |-> {TRUE}, observe |-> FALSE])
Next == Lifecycle
Spec == Init /\ [][Next]_vars

\* Runs (FewCalls of them) in whose write-back any step may raise.
InitFail == InitIn([calls |-> FewCalls, listeners |-> 1,
                    outputs |-> {Answer, EmptyOutput}, failures |-> Failures,
                    remotes |-> BOOLEAN, observe |-> FALSE])
SpecFail == InitFail /\ [][Lifecycle]_vars

\* Runs (FewCalls of them) whose subprocess may leave any output.
InitOut == InitIn([calls |-> FewCalls, listeners |-> 1,
                   outputs |-> Outputs, failures |-> {NoFailure},
                   remotes |-> BOOLEAN, observe |-> FALSE])
SpecOut == InitOut /\ [][Lifecycle]_vars

\* The lifecycle with cancel() calls.
InitCancel == InitIn([calls |-> FewCalls, listeners |-> 1,
                      outputs |-> {Answer, EmptyOutput}, failures |-> {NoFailure},
                      remotes |-> {TRUE}, observe |-> FALSE])
NextCancel == Lifecycle \/ \E i \in Issues : Cancel(i)
SpecCancel == InitCancel /\ [][NextCancel]_vars

\* The broadcaster under concurrent create_issue requests, with clients
\* that connect and disconnect, sends that fail, and every delivery observed.
InitBroadcast == InitIn([calls |-> 0, listeners |-> MaxListeners,
                         outputs |-> {Answer}, failures |-> {NoFailure},
                         remotes |-> {TRUE}, observe |-> TRUE])
NextBroadcast ==
    \/ \E c \in Calls : CreateIssue(c)
    \/ \E c \in Calls, ok \in BOOLEAN : Send(c, ok)
    \/ \E l \in Listeners : Connect(l)
    \/ \E l \in Listeners : ClientDisconnect(l)
SpecBroadcast == InitBroadcast /\ [][NextBroadcast]_vars

\* The store's counters, called by up to MaxClients callers at a time.
InitCounter == InitIn([calls |-> 0, listeners |-> 0, outputs |-> {Answer},
                       failures |-> {NoFailure}, remotes |-> {FALSE},
                       observe |-> FALSE, clients |-> MaxClients,
                       kinds |-> {"issue", "comment"}, allocs |-> MaxAllocs])
NextCounter ==
    \/ \E a \in Clients, kind \in {"issue", "comment"} : ReadMetaStep(a, kind)
    \/ \E a \in Clients : WriteMetaStep(a)
SpecCounter == InitCounter /\ [][NextCounter]_vars

\* The store's version-control operations, called one after the other in
\* any order, with or without a remote, which another clone pushes to; the
\* working tree is changed by allocations of comment identifiers and by
\* write_labels.
InitStore == InitIn([calls |-> 0, listeners |-> 0, outputs |-> {Answer},
                     failures |-> {NoFailure}, remotes |-> BOOLEAN,
                     observe |-> FALSE, clients |-> 1,
                     kinds |-> {"comment"}, allocs |-> 1])
NextStore ==
    \/ \E a \in Clients, kind \in {"issue", "comment"} : ReadMetaStep(a, kind)
    \/ \E a \in Clients : WriteMetaStep(a)
    \/ WriteLabels
    \/ CommitCall
    \/ RemoteCommit
    \/ SyncCall
    \/ PushCall
    \/ InitCall
SpecStore == InitStore /\ [][NextStore]_vars

\* The lifecycle while the project's store is reassigned by connect_store
\* and synced by hand.
StoreIds == 1..MaxStores
InitReassign == InitIn([calls |-> FewCalls, listeners |-> 1,
                        outputs |-> {Answer, EmptyOutput},
                        failures |-> {NoFailure}, remotes |-> {TRUE},
                        observe |-> FALSE])
NextReassign ==
    \/ Lifecycle
    \/ \E id \in StoreIds : ConnectStore(id)
    \/ SyncStore
SpecReassign == InitReassign /\ [][NextReassign]_vars

\* Comments created and deleted by requests and written back by runs
\* (FewCalls of them), in whose write-back any step may raise.  No client is
\* connected.
InitComments == InitIn([calls |-> FewCalls, listeners |-> 0,
                        outputs |-> {Answer}, failures |-> Failures,
                        remotes |-> {TRUE}, observe |-> FALSE])
NextComments ==
    \/ \E c \in Calls, i \in Issues : RunCheck(c, i)
    \/ \E c \in Calls : RunSpawned(c)
    \/ \E p \in Calls : ProcExit(p)
    \/ \E c \in Calls : TaskStart(c)
    \/ \E c \in Calls : TaskResume(c)
    \/ \E c \in Calls, i \in 1..(NumIssues + 1) : CreateComment(c, i)
    \/ \E id \in 1..(MaxCalls + 1) : DeleteComment(id)
SpecComments == InitComments /\ [][NextComments]_vars

\* Issues created and updated by requests, in a store whose labels.json is
\* written; no client is connected.
InitIssues == InitIn([calls |-> 0, listeners |-> 0, outputs |-> {Answer},
                      failures |-> {NoFailure}, remotes |-> {TRUE},
                      observe |-> FALSE])
NextIssues ==
    \/ \E c \in Calls : CreateIssue(c)
    \/ \E c \in Calls, n \in 1..(NumIssues + 1), body \in UpdateIssueRequests :
         UpdateIssue(c, n, body)
    \/ WriteLabels
SpecIssues == InitIssues /\ [][NextIssues]_vars

\* The project's labels created, renamed and deleted by requests, and set
\* on issues by update_issue; no client is connected.
InitLabels == InitIn([calls |-> 0, listeners |-> 0, outputs |-> {Answer},
                      failures |-> {NoFailure}, remotes |-> {TRUE},
                      observe |-> FALSE])
NextLabels ==
    \/ \E name \in LabelNames : CreateLabel(name)
    \/ \E name \in LabelNames, new_name \in LabelNames \cup {None} :
         UpdateLabel(name, new_name)
    \/ \E name \in LabelNames : DeleteLabel(name)
    \/ \E c \in Calls, n \in Issues, body \in UpdateIssueRequests :
         UpdateIssue(c, n, body)
SpecLabels == InitLabels /\ [][NextLabels]_vars

\* Documents written to and read from the store by its callers, with
\* commits in between.
InitRoundTrip == InitIn([calls |-> 0, listeners |-> 0, outputs |-> {Answer},
                         failures |-> {NoFailure}, remotes |-> {FALSE},
                         observe |-> FALSE])
NextRoundTrip ==
    \/ \E issue \in IssueValues : WriteIssueCall(issue)
    \/ \E n \in Issues : ReadIssueCall(n)
    \/ \E i \in Issues, comment \in CommentValues : WriteCommentCall(i, comment)
    \/ \E i \in Issues, comment \in CommentValues : ReadCommentCall(i, comment.id)
    \/ \E labels \in LabelLists : WriteLabelsCall(labels)
    \/ ReadLabelsCall
    \/ CommitCall
SpecRoundTrip == InitRoundTrip /\ [][NextRoundTrip]_vars

\* Issues written to the store, numbered in turn, and listed with one query
\* of the three filters.
InitFilter ==
    \E filters \in FilterQueries :
        InitIn([calls |-> 0, listeners |-> 0, outputs |-> {Answer},
                failures |-> {NoFailure}, remotes |-> {FALSE},
                observe |-> FALSE, filters |-> filters])
NextFilter ==
    \/ \E issue \in Listed : issue.number = NextNumber /\ WriteIssueCall(issue)
    \/ \E order \in GlobOrders(DOMAIN store.issues) :
         ListIssuesCall(order, env.filters)
SpecFilter == InitFilter /\ [][NextFilter]_vars

\* Issues written to the store, numbered in turn, and listed page by page.
InitPage ==
    \E filters \in PageQueries :
        InitIn([calls |-> 0, listeners |-> 0, outputs |-> {Answer},
                failures |-> {NoFailure}, remotes |-> {FALSE},
                observe |-> FALSE, filters |-> filters])
NextPage ==
    \/ \E issue \in Listed : issue.number = NextNumber /\ WriteIssueCall(issue)
    \/ \E order \in GlobOrders(DOMAIN store.issues) :
         ListIssuesCall(order, env.filters)
SpecPage == InitPage /\ [][NextPage]_vars

\* Issues, comments and labels written to the store by its callers, and
\* issues deleted.  A comment may be written under a number whose issue was
\* deleted, as a write-back does that began before the deletion.
InitDelete == InitIn([calls |-> 0, listeners |-> 0, outputs |-> {Answer},
                      failures |-> {NoFailure}, remotes |-> {FALSE},
                      observe |-> FALSE])
NextDelete ==
    \/ \E issue \in Rewritten : WriteIssueCall(issue)
    \/ \E i \in Issues \cup DOMAIN written.issues, id \in 1..2 :
         WriteCommentCall(i, Comment(id, "first", "t1"))
    \/ WriteLabelsCall(<<Bug>>)
    \/ \E n \in Numbers : DeleteIssueCall(n)
SpecDelete == InitDelete /\ [][NextDelete]_vars

\* The broadcaster of a store without a remote, with nothing recorded of
\* the deliveries: listeners are disconnected by their endpoints and by the
\* broadcasts whose send to them failed.
InitDisconnect == InitIn([calls |-> 0, listeners |-> MaxListeners,
                          outputs |-> {Answer}, failures |-> {NoFailure},
                          remotes |-> {FALSE}, observe |-> FALSE])
NextDisconnect ==
    \/ \E c \in Calls : CreateIssue(c)
    \/ \E c \in Calls, ok \in BOOLEAN : Send(c, ok)
    \/ \E l \in Listeners : Connect(l)
    \/ \E l \in Listeners : ClientDisconnect(l)
SpecDisconnect == InitDisconnect /\ [][NextDisconnect]_vars

\* Sessions run, rerun and asked for: get_status and list_sessions at any
\* moment of the runs.
InitStatus == InitIn([calls |-> MaxCalls, listeners |-> 0, outputs |-> {Answer},
                      failures |-> {NoFailure}, remotes |-> {TRUE},
                      observe |-> FALSE])
NextStatus ==
    \/ \E c \in Calls, i \in Issues : RunCheck(c, i)
    \/ \E c \in Calls : RunSpawnFails(c)
    \/ \E c \in Calls : RunSpawned(c)
    \/ \E p \in Calls : ProcExit(p)
    \/ \E c \in Calls : TaskStart(c)
    \/ \E c \in Calls : TaskResume(c)
    \/ \E i \in Issues : GetStatus(i)
    \/ ListSessions
SpecStatus == InitStatus /\ [][NextStatus]_vars

\* Sessions run and rerun in a project that has no settings file yet, or
\* has the user's own.
InitSettings == InitIn([calls |-> MaxCalls, listeners |-> 0,
                        outputs |-> {Answer}, failures |-> {NoFailure},
                        remotes |-> {TRUE, FALSE}, observe |-> FALSE])
NextSettings ==
    \/ \E c \in Calls, i \in Issues : RunCheck(c, i)
    \/ \E c \in Calls : RunSpawnFails(c)
    \/ \E c \in Calls : RunSpawned(c)
    \/ \E p \in Calls : ProcExit(p)
    \/ \E c \in Calls : TaskStart(c)
    \/ \E c \in Calls : TaskResume(c)
SpecSettings == InitSettings /\ [][NextSettings]_vars

\* _extract_json applied to one text of up to MaxText tokens.
InitExtract ==
    \E text \in Texts :
        InitIn([calls |-> 0, listeners |-> 0, outputs |-> {Answer},
                failures |-> {NoFailure}, remotes |-> {FALSE},
                observe |-> FALSE, text |-> text])
NextExtract == ExtractJsonCall(env.text)
SpecExtract == InitExtract /\ [][NextExtract]_vars

\* Sessions run before two clients that connect and disconnect, with every
\* delivery recorded.
InitOrder == InitIn([calls |-> FewCalls, listeners |-> 2,
                     outputs |-> {Answer, EmptyOutput}, failures |-> {NoFailure},
                     remotes |-> {TRUE}, observe |-> TRUE])
SpecOrder == InitOrder /\ [][Lifecycle]_vars

\* Requests that create issues and comments and one run with its
\* write-back, with a client connected: every handler and the supervising
\* task suspend in their broadcast, so that several are in progress at once.
\* No write-back step raises and no comment is deleted.
InitAlloc == InitIn([calls |-> FewCalls, listeners |-> 1,
                     outputs |-> {Answer, EmptyOutput}, failures |-> {NoFailure},
                     remotes |-> {FALSE}, observe |-> FALSE])
NextAlloc ==
    \/ \E c \in Calls, i \in Issues : RunCheck(c, i)
    \/ \E c \in Calls : RunSpawned(c)
    \/ \E p \in Calls : ProcExit(p)
    \/ \E c \in Calls : TaskStart(c)
    \/ \E c \in Calls : TaskResume(c)
    \/ \E c \in Calls, ok \in BOOLEAN : Send(c, ok)
    \/ \E l \in Listeners : Connect(l)
    \/ \E c \in Calls : CreateIssue(c)
    \/ \E c \in Calls, i \in Issues : CreateComment(c, i)
SpecAlloc == InitAlloc /\ [][NextAlloc]_vars

\* The project's labels created, renamed and deleted, and the labels of
\* issues set by create_issue, update_issue and the issue-level label
\* routes; no client is connected.
NameLists == {<<"bug">>, <<"feature", "bug">>}
LabelUpdates ==
    {body \in UpdateIssueRequests : body.state = None /\ body.state_reason = None}
InitHeld == InitIn([calls |-> 0, listeners |-> 0, outputs |-> {Answer},
                    failures |-> {NoFailure}, remotes |-> {FALSE},
                    observe |-> FALSE])
NextHeld ==
    \/ \E name \in LabelNames : CreateLabel(name)
    \/ \E name \in LabelNames, new_name \in LabelNames \cup {None} :
         UpdateLabel(name, new_name)
    \/ \E name \in LabelNames : DeleteLabel(name)
    \/ \E c \in Calls, names \in NameLists : CreateIssueLabelled(c, names)
    \/ \E c \in Calls, n \in Issues, body \in LabelUpdates :
         UpdateIssue(c, n, body)
    \/ \E n \in Issues, names \in NameLists : AddLabelsToIssue(n, names)
    \/ \E n \in Issues, names \in NameLists : ReplaceIssueLabels(n, names)
    \/ \E n \in Issues : RemoveAllIssueLabels(n)
    \/ \E n \in Issues, name \in LabelNames : RemoveLabelFromIssue(n, name)
SpecHeld == InitHeld /\ [][NextHeld]_vars

\* Listings of a store whose issues are written in turn, for one query
\* that asks for an order (any key, either direction) and a first or second
\* page of two or of all.
SortQueries ==
    {IssueFilters("all", <<>>, None, sort, direction, page, per_page) :
        sort \in {"created", "updated", "comments", "title"},
        direction \in {"asc", "desc"}, page \in {1, 2}, per_page \in {2, 100}}
InitSort ==
    \E filters \in SortQueries :
        InitIn([calls |-> 0, listeners |-> 0, outputs |-> {Answer},
                failures |-> {NoFailure}, remotes |-> {FALSE},
                observe |-> FALSE, filters |-> filters])
SpecSort == InitSort /\ [][NextPage]_vars

\* Requests that create and update issues and create comments, in any of
\* which a step may raise, with a client connected and a remote to push to.
MutatingHandlers == {"create_issue", "update_issue", "create_comment"}
InitRequests == InitIn([calls |-> 0, listeners |-> 1, outputs |-> {Answer},
                        failures |-> {NoFailure}, remotes |-> {TRUE},
                        observe |-> FALSE])
NextRequests ==
    \/ \E l \in Listeners : Connect(l)
    \/ \E c \in Calls, ok \in BOOLEAN : Send(c, ok)
    \/ \E c \in Calls : CreateIssue(c)
    \/ \E c \in Calls, n \in Issues, body \in LabelUpdates :
         UpdateIssue(c, n, body)
    \/ \E c \in Calls, i \in Issues : CreateComment(c, i)
    \/ \E c \in Calls, op \in MutatingHandlers, i \in Issues,
          n \in DOMAIN HandlerSteps : RequestRaises(c, op, i, n)
SpecRequests == InitRequests /\ [][NextRequests]_vars

\* ---------------------------------------------------------------- claims
\* The status recorded for a key ("absent" for a key not in the map).
StatusOf(k) == IF sessions[k] = NoSession THEN "absent"
               ELSE sess[sessions[k]].status

\* Run c is in flight: its subprocess was spawned and no supervising task
\* has recorded a terminal status for it.
InFlight(c) == proc[c].state # "none" /\ sess[c].status = "running"

\* C1: under any interleaving of concurrent run() calls for one key, at most
\* one run of the key is in flight at any time.
C1_AtMostOneInFlight ==
    \A i \in Issues :
        Cardinality({c \in Calls : call[c].issue = i /\ InFlight(c)}) <= 1

\* C2: run() for a key whose recorded session is running fails with the
\* Conflict error and changes nothing: no subprocess, no change to the
\* session records, no settings file written, no event broadcast.
C2_ConflictChangesNothing ==
    [][\A c \in Calls :
        (/\ call[c].pc = "idle" /\ call'[c].pc # "idle"
         /\ StatusOf(Key(Project, call'[c].issue)) = "running")
        => /\ call'[c].pc = "conflict"
           /\ UNCHANGED <<sessions, sess, proc, task, bc, connections,
                          emitted, settings, store, head, remote>>]_vars

\* C2 witness: a run() was rejected while the key's session was running.
C2_Witness ==
    \E c \in Calls : /\ call[c].pc = "conflict"
                     /\ StatusOf(Key(Project, call[c].issue)) = "running"

\* C3: with a completed or failed session recorded for the key, a new run()
\* passes the running check, and the run replaces the record with a fresh one
\* (running, finished_at and error cleared), whatever ran before.
C3_RerunAfterTerminal ==
    [][\A c \in Calls :
        /\ (/\ call[c].pc = "idle" /\ call'[c].pc # "idle"
            /\ StatusOf(Key(Project, call'[c].issue)) \in Terminal)
           => call'[c].pc = "spawning"
        /\ (call[c].pc = "spawning" /\ call'[c].pc \in {"broadcasting", "done"})
           => /\ sessions'[Key(Project, call[c].issue)] = c
              /\ sess'[c].status = "running"
              /\ sess'[c].finished_at = None
              /\ sess'[c].error = None
              /\ StatusOf(Key(Project, call[c].issue))' = "running"]_vars

\* C3 witness: a run that found a terminal session for its key has replaced
\* it, and the key is running again.
C3_Witness ==
    \E c \in Calls :
        /\ call[c].existing # NoSession
        /\ sess[call[c].existing].status \in Terminal
        /\ sess[call[c].existing].finished_at # None
        /\ sessions[Key(Project, call[c].issue)] = c
        /\ sess[c].status = "running"

\* A supervising task records a result in session s in this step.
Records(s) ==
    \E c \in Calls : /\ task[c].pc \in {"created", "waiting"}
                     /\ task'[c].pc \in {"bcast", "done"}
                     /\ task'[c].session = s

\* C4: the status recorded for a key changes only absent -> running,
\* running -> completed, running -> failed and completed/failed -> running,
\* the last only by a new accepted run(); a supervising task never changes or
\* rewrites a status that is completed or failed.
C4_Transitions ==
    [][/\ \A k \in Keys :
            StatusOf(k)' # StatusOf(k) =>
                \/ StatusOf(k) = "absent" /\ StatusOf(k)' = "running"
                \/ StatusOf(k) = "running" /\ StatusOf(k)' \in Terminal
                \/ /\ StatusOf(k) \in Terminal /\ StatusOf(k)' = "running"
                   /\ sessions'[k] # sessions[k]
       /\ \A s \in Calls : sess[s].status \in Terminal => ~Records(s)]_vars

\* Nothing is in progress: every run() call has returned, every supervising
\* task and every broadcast has ended.
Quiescent ==
    /\ \A c \in Calls : call[c].pc \in {"idle", "conflict", "spawn_failed", "done"}
    /\ \A c \in Calls : task[c].pc \in {"none", "done"}
    /\ \A c \in Calls : ~bc[c].active

\* a terminal event was broadcast for session s that agrees with its status
TerminalEventFor(s) ==
    \E m \in emitted :
        /\ m.event = "amplifier:" \o sess[s].status
        /\ m.issueNumber = sess[s].issue_number

\* C5: every session recorded as running becomes completed or failed and a
\* matching terminal event is broadcast for it: once the supervising tasks
\* have ended, none has left a session running.
C5_NoSessionLeftRunning ==
    Quiescent => \A s \in Calls :
        sess[s].status # "unborn" =>
            sess[s].status \in Terminal /\ TerminalEventFor(s)

\* Task c's communicate() returns in this step and _wait runs to its
\* broadcast.
Completes(c) == /\ task[c].pc \in {"created", "waiting"}
                /\ task'[c].pc \in {"bcast", "done"}

\* C6: if a store or version-control step of the write-back raises, the
\* session is marked failed with the exception's message as its error,
\* finished_at is set, and amplifier:failed carrying the message is broadcast.
C6_WriteBackErrorFails ==
    [][\A c \in Calls :
        (Completes(c) /\ task'[c].fail # NoFailure) =>
            LET s == task'[c].session
                e == "error in " \o task'[c].fail
            IN  /\ sess'[s].status = "failed"
                /\ sess'[s].error = e
                /\ sess'[s].finished_at # None
                /\ \E m \in emitted' \ emitted :
                     /\ m.event = "amplifier:failed"
                     /\ m.project = Project
                     /\ m.issueNumber = sess[s].issue_number
                     /\ m.error = e]_vars

\* C6 witness: the commit of a write-back raised, and the session is failed
\* with that message.
C6_Witness ==
    \E c \in Calls :
        /\ task[c].fail = "commit"
        /\ sess[task[c].session].status = "failed"
        /\ sess[task[c].session].error = "error in commit"

\* communicate() gave task c an object with status "success" (in task c's
\* state after the step), and nothing raised
SucceededIn(t) == /\ ~t.com.raised /\ t.fail = NoFailure
                  /\ t.com.out.parsed.isdict
                  /\ t.com.out.parsed.status = "success"
FailedIn(t) == /\ ~t.com.raised /\ t.fail = NoFailure
               /\ ~(t.com.out.parsed.isdict /\ t.com.out.parsed.status = "success")

\* C7: for every recovered object with status "success", whatever its
\* response field is (a string, "", absent, null), and with no error in the
\* write-back, the session ends completed and the comment posted has the
\* response as its body.
C7_SuccessCompletes ==
    [][\A c \in Calls :
        (Completes(c) /\ SucceededIn(task'[c])) =>
            LET s == task'[c].session
                response == task'[c].com.out.parsed.response
            IN  /\ sess'[s].status = "completed"
                /\ \E x \in store'.comments \ store.comments :
                     /\ x.issue = sess[s].issue_number
                     /\ x.user = ATTRACTOR_BOT
                     /\ x.body = IF response = Absent THEN "" ELSE response]_vars

\* C8: when a session is marked completed, amplifier:completed carries the id
\* of a comment by the bot that is persisted under the session's issue,
\* committed, and pushed if there is a remote; and no step of the write-back
\* raised.
C8_CompletedAfterWriteBack ==
    [][\A s \in Calls :
        (sess[s].status # "completed" /\ sess'[s].status = "completed") =>
            /\ \E c \in Calls : /\ Completes(c) /\ task'[c].session = s
                                /\ task'[c].fail = NoFailure
                                /\ ~task'[c].com.raised
            /\ \E m \in emitted' \ emitted :
                 /\ m.event = "amplifier:completed"
                 /\ m.issueNumber = sess[s].issue_number
                 /\ \E x \in store'.comments :
                      /\ x.id = m.commentId
                      /\ x.issue = sess[s].issue_number
                      /\ x.user = ATTRACTOR_BOT
                      /\ x \in head'.comments
                      /\ remote'.has => x \in remote'.tree.comments]_vars

\* C8 witness: a session is completed, its comment is on the remote.
C8_Witness ==
    \E s \in Calls :
        /\ sess[s].status = "completed"
        /\ remote.has
        /\ \E m \in emitted, x \in remote.tree.comments :
             /\ m.event = "amplifier:completed"
             /\ m.commentId = x.id
             /\ x.issue = sess[s].issue_number

\* The error message of a failed outcome: the object's error field (a default
\* text without one), else the tail of stderr, else the exit-code text.
ErrorOf(out) ==
    IF out.parsed.isdict
    THEN IF out.parsed.error = Absent THEN "Amplifier session failed"
         ELSE out.parsed.error
    ELSE IF out.stderr = "" THEN "Process exited with code N"
         ELSE IF out.stderr = "12 lines" THEN "lines 3 to 12 of 12"
         ELSE out.stderr

\* The session, the comment and the event after a failed outcome, with the
\* given comment body and the error e.
FailurePosted(c, body, e) ==
    LET s == task'[c].session
    IN  /\ sess'[s].status = "failed"
        /\ sess'[s].error = e
        /\ \E x \in store'.comments \ store.comments :
             /\ x.issue = sess[s].issue_number
             /\ x.user = ATTRACTOR_BOT
             /\ x.body = body
        /\ \E m \in emitted' \ emitted :
             /\ m.event = "amplifier:failed"
             /\ m.issueNumber = sess[s].issue_number
             /\ m.error = e

\* C9 as stated: after a failed outcome and a write-back without error, a bot
\* comment is posted whose body is the error message, the session is failed
\* with that same message, and amplifier:failed carries it.
C9_FailurePostsError ==
    [][\A c \in Calls :
        (Completes(c) /\ FailedIn(task'[c])) =>
            FailurePosted(c, ErrorOf(task'[c].com.out),
                          ErrorOf(task'[c].com.out))]_vars

\* C9 as amended: the same, but when the recovered object's error field is
\* null the session's error and the event's error are null and the comment's
\* body is the empty string.
C9_FailurePostsErrorOrEmpty ==
    [][\A c \in Calls :
        (Completes(c) /\ FailedIn(task'[c])) =>
            LET e == ErrorOf(task'[c].com.out)
            IN  FailurePosted(c, IF e = None THEN "" ELSE e, e)]_vars

\* C9 witness: a subprocess reported an error, the session is failed with it
\* and the comment says it.
C9_Witness ==
    \E c \in Calls :
        /\ task[c].pc \in {"bcast", "done"} /\ FailedIn(task[c])
        /\ task[c].com.out.parsed.error = "boom"
        /\ sess[task[c].session].error = "boom"
        /\ \E x \in store.comments : x.body = "boom"

\* C10: cancel() returns success exactly when the session recorded for the
\* key is running, and then only signals the process: no session record and
\* no supervising task is changed, the status stays running; with no running
\* session it returns failure, sends no signal and changes nothing.
C10_CancelOnlySignals ==
    [][\A i \in Issues :
        Cancel(i) =>
            LET running == StatusOf(Key(Project, i)) = "running"
            IN  /\ ret'.val = IF running THEN "true" ELSE "false"
                /\ UNCHANGED <<sessions, sess, task, call, bc, emitted, store>>
                /\ ~running => UNCHANGED proc]_vars

\* C11: cancel() reports every failure as a false result and never raises,
\* also when the subprocess has exited and its supervising task has not yet
\* recorded a terminal status: every cancel() call returns true or false.
C11_CancelNeverRaises ==
    ret.op = "cancel" => ret.val \in {"true", "false"}

\* The elements of a sequence, and whether a comes before b in it.
Range(seq) == {seq[n] : n \in DOMAIN seq}
Before(seq, a, b) ==
    \E m, n \in DOMAIN seq : m < n /\ seq[m] = a /\ seq[n] = b
Occurrences(seq, a) == Cardinality({n \in DOMAIN seq : seq[n] = a})

\* The broadcast() call of c returns in this step.
Returns(c) == bc[c].active /\ ~bc'[c].active

\* At the return of broadcast() call c, every listener that was registered
\* when it began, is still registered and was not collected as failing has
\* been sent the message.
DeliveredToAll(c) ==
    \A l \in Range(bc'[c].start) :
        l \in Range(connections') => l \in Range(bc'[c].sent)

\* C12: broadcast() delivers the message to every listener registered when
\* it starts (that has stayed registered and whose send did not fail),
\* exactly once each, in registration order.
C12_DeliversToAllRegistered ==
    [][\A c \in Calls :
        Returns(c) =>
            /\ DeliveredToAll(c)
            /\ \A l \in Range(bc'[c].start) : Occurrences(bc'[c].sent, l) <= 1
            /\ \A k, l \in Range(bc'[c].start) :
                  Before(bc'[c].sent, k, l) => Before(bc'[c].start, k, l)]_vars

\* C13: for any set of listeners whose send fails in a broadcast, every
\* other registered listener still receives the message, the broadcast ends
\* normally, no listener is removed by it before its delivery pass is over,
\* and at its end the live set is the one before minus the failing
\* listeners, in the same order.
C13_FailuresIsolated ==
    [][\A c \in Calls :
        /\ (bc[c].active /\ bc'[c].active /\ bc'[c].idx # bc[c].idx)
              => connections' = connections
        /\ Returns(c) =>
              /\ \A l \in Range(bc'[c].start) \ Range(bc'[c].failed) :
                    l \in Range(connections') => l \in Range(bc'[c].sent)
              /\ call'[c].pc = "created"
              /\ connections' =
                    SelectSeq(connections,
                              LAMBDA l : l \notin Range(bc'[c].failed))]_vars

\* C14: every listener receives the events in the order in which their
\* broadcast() calls were started, also with two broadcasts in progress.
\* (The create_issue requests emit in the order of their numbers: each runs
\* to its broadcast() call without suspending.)
C14_PerListenerOrder ==
    \A l \in Listeners :
        \A m, n \in DOMAIN received[l] :
            m < n => received[l][m].src < received[l][n].src

\* Caller a's counter allocation returns in this step.
Allocates(a) == client[a].pc = "read" /\ client'[a].pc = "idle"

\* The identifiers of one kind in a record of allocations, in order.
IdsOf(ids, kind) == SelectSeq(ids, LAMBDA x : x.kind = kind)

\* C15: each next_issue_id call that no other call overlaps returns the value
\* stored before it and persists that value plus one, and N such calls in a
\* row return c, c+1, ..., c+N-1, c being the counter stored before the
\* first; the same for next_comment_id.
C15_SequentialAllocation ==
    [][/\ \A a \in Clients :
            (Allocates(a) /\ client[a].clean) =>
                LET kind   == client[a].kind
                    before == IF kind = "issue" THEN store.next_issue_id
                              ELSE store.next_comment_id
                    after  == IF kind = "issue" THEN store'.next_issue_id
                              ELSE store'.next_comment_id
                IN  /\ Last(allocated'.ids) = [kind |-> kind, id |-> before]
                    /\ after = before + 1
       /\ ~allocated'.overlapped =>
            /\ \A n \in DOMAIN IdsOf(allocated'.ids, "issue") :
                  IdsOf(allocated'.ids, "issue")[n].id
                    = allocated'.base.next_issue_id + n - 1
            /\ \A n \in DOMAIN IdsOf(allocated'.ids, "comment") :
                  IdsOf(allocated'.ids, "comment")[n].id
                    = allocated'.base.next_comment_id + n - 1]_vars

\* C15 witness: three calls in a row, none overlapping another, two of them
\* for issue identifiers.
C15_Witness ==
    /\ ~allocated.overlapped
    /\ Len(allocated.ids) >= 3
    /\ Len(IdsOf(allocated.ids, "issue")) >= 2

\* C16: nothing serializes two next_issue_id (or next_comment_id) calls on
\* one store: a call returns the counter it read and replaces meta.json by
\* the Meta it read with that counter plus one, whatever has been written
\* since its read; so two calls whose steps interleave can return the same
\* identifier (the witness).
C16_AllocationNotSerialized ==
    [][\A a \in Clients :
        Allocates(a) =>
            LET kind == client[a].kind
                meta == client[a].meta
            IN  /\ Last(allocated'.ids) =
                      [kind |-> kind,
                       id |-> IF kind = "issue" THEN meta.next_issue_id
                              ELSE meta.next_comment_id]
                /\ store'.next_issue_id =
                      meta.next_issue_id + (IF kind = "issue" THEN 1 ELSE 0)
                /\ store'.next_comment_id =
                      meta.next_comment_id + (IF kind = "comment" THEN 1 ELSE 0)]_vars

\* C16 witness: two issue allocations whose steps interleaved have returned
\* the same identifier.
C16_Witness ==
    /\ allocated.overlapped
    /\ \E m, n \in DOMAIN allocated.ids :
         /\ m < n
         /\ allocated.ids[m].kind = "issue"
         /\ allocated.ids[m] = allocated.ids[n]

\* C17: commit() creates a commit exactly when the working tree differs from
\* HEAD, and then HEAD is the working tree: no commit of the history repeats
\* its parent's tree, and a second commit() right after creates none.
C17_CommitOnlyWhenStaged ==
    [][CommitCall =>
        /\ log' = IF store # head THEN Append(log, store) ELSE log
        /\ head' = store /\ store' = store
        /\ \A n \in 2..Len(log') : log'[n] # log'[n-1]]_vars

\* C17 witness: a commit() call has committed a change of the working tree,
\* which is now clean.
C17_Witness ==
    /\ ret.op = "commit"
    /\ Len(log) >= 2 /\ Last(log) # log[Len(log) - 1]
    /\ store = head /\ head = Last(log)

\* C18: init() on a directory that is an initialized store raises, whatever
\* the store's counters, labels and working tree.
C18_InitFailsOnInitialized ==
    [][InitCall => ret'.val = "raised"]_vars

\* The local history and origin's have diverged.
Diverged == ~IsPrefix(log, rlog) /\ ~IsPrefix(rlog, log)

\* C19: sync() does nothing and succeeds without a remote; with one it only
\* ever fast-forwards (the local history stays a prefix of the new one,
\* which is a prefix of origin's, unless nothing was pulled); with diverged
\* histories it raises; and when it raises, history and working tree are
\* unchanged.
C19_SyncFastForwardOnly ==
    [][SyncCall =>
        /\ ~remote.has =>
              ret'.val = "ok" /\ UNCHANGED <<store, head, log, rlog, remote>>
        /\ (remote.has /\ Diverged) => ret'.val = "raised"
        /\ ret'.val = "raised" => UNCHANGED <<store, head, log, rlog, remote>>
        /\ ret'.val = "ok" =>
              /\ IsPrefix(log, log')
              /\ log' = log \/ IsPrefix(log', rlog)
              /\ head' = Last(log')]_vars

\* C19 witness: sync() has raised on diverged histories.
C19_Witness ==
    /\ ret.op = "sync" /\ ret.val = "raised"
    /\ remote.has /\ Diverged

\* C20: no store operation is executed on a store directory whose manifest
\* store_id differs from the store_id recorded for the project at that time:
\* not by a route given its storage by get_project_storage, not by the manual
\* sync, and not by a supervising task's write-back.
C20_StoreIdChecked ==
    [][/\ \A c \in Calls :
            (call[c].pc = "idle" /\ call'[c].pc \in {"conflict", "spawning"})
                => manifest[call'[c].store] = cfg.store_id
       /\ SyncStore => manifest[cfg.path] = cfg.store_id
       /\ \A c \in Calls :
            (Completes(c) /\ ~task'[c].com.raised)
                => manifest[call[c].store] = cfg.store_id]_vars

\* The comments persisted under issue i.
CommentsOf(tree, i) == {x \in tree.comments : x.issue = i}

\* C21: after any sequence of create_comment and delete_comment calls and
\* write-backs of supervising tasks, the comments field of every issue equals
\* the number of comments persisted under the issue.
C21_CountMatchesComments ==
    \A i \in DOMAIN store.issues :
        store.issues[i].comments = Cardinality(CommentsOf(store, i))

\* state_reason, closed_at and closed_by of an issue are all set, or all unset
AllSet(x) == x.state_reason # None /\ x.closed_at # None /\ x.closed_by # None
AllUnset(x) == x.state_reason = None /\ x.closed_at = None /\ x.closed_by = None

\* C22: after any sequence of create_issue and update_issue calls, whatever
\* state an update carries, state_reason, closed_at and closed_by of every
\* issue are all set if the issue's state is closed and all unset if not.
C22_ClosedFieldsIffClosed ==
    \A i \in DOMAIN store.issues :
        IF store.issues[i].state = "closed" THEN AllSet(store.issues[i])
        ELSE AllUnset(store.issues[i])

\* C23: after any sequence of create_label, update_label (renames included)
\* and delete_label calls, no two labels of labels.json have the same name.
C23_LabelNamesUnique ==
    \A n, m \in DOMAIN store.labels :
        store.labels[n].name = store.labels[m].name => n = m

\* A read returned the value v.
Gave(r, v) == r.val.is = "value" /\ r.val.value = v

\* C24: read_issue, read_comment and read_labels return a value equal to the
\* one last written under the same key, whether or not a commit was made
\* since; a later write to a key replaces the earlier value.
C24_ReadReturnsLastWrite ==
    [][/\ \A n \in Issues :
            ReadIssueCall(n) => Gave(ret', written.issues[n])
       /\ \A i \in Issues, c \in CommentValues :
            ReadCommentCall(i, c.id) => Gave(ret', written.comments[<<i, c.id>>])
       /\ ReadLabelsCall => Gave(ret', written.labels)]_vars

\* C24 witness: an issue was written, committed, written again with another
\* value and read: the read gave the later value, which is not committed.
C24_Witness ==
    /\ ret.op = "read_issue"
    /\ Gave(ret, written.issues[ret.issue])
    /\ Len(log) > 1
    /\ ReadIssue(head, ret.issue).is = "value"
    /\ ReadIssue(head, ret.issue).value # ret.val.value

\* The issues of the store, validated.
IssuesOf(tree) == {ValidateIssue(tree.issues[n]) : n \in DOMAIN tree.issues}

\* The names a labels filter asks for: the parts of the text between its
\* commas, without the blanks around them; none for no text.
Requested(labels) ==
    IF labels = <<>> \/ labels = <<<<>>>> THEN {}
    ELSE {Strip(part) : part \in {Split(labels[1])[n] : n \in DOMAIN Split(labels[1])}}

\* An issue satisfies the three filters of a query.
Satisfies(i, filters) ==
    /\ filters.state \in {None, "", "all"} \/ i.state = filters.state
    /\ \A name \in Requested(filters.labels) :
          \E n \in DOMAIN i.labels : Text(i.labels[n].name) = name
    /\ CASE filters.assignee = None -> TRUE
         [] filters.assignee = "none" -> Len(i.assignees) = 0
         [] filters.assignee = "*" -> Len(i.assignees) >= 1
         [] OTHER -> \E n \in DOMAIN i.assignees :
                        i.assignees[n].login = filters.assignee

\* C25: list_issues returns exactly the issues of the store that satisfy
\* all three filters of the query: the state filter (none if it is "all" or
\* unset), every requested label name (AND), and the assignee filter ("none",
\* "*" or a login); total_count is their number.
C25_ListedAreTheMatches ==
    ret.op = "list_issues" =>
        /\ ret.val.is = "value"
        /\ Range(ret.val.value.items) =
              {i \in IssuesOf(store) : Satisfies(i, ret.filters)}
        /\ ret.val.value.total_count =
              Cardinality({i \in IssuesOf(store) : Satisfies(i, ret.filters)})

\* C25 happens: of three issues labelled {bug}, {bug, feature} and
\* {feature}, a listing has returned the one labelled {bug, feature} alone.
C25_Witness ==
    /\ ret.op = "list_issues"
    /\ ret.val.is = "value"
    /\ Cardinality(IssuesOf(store)) = 3
    /\ \E a, b, c \in IssuesOf(store) :
         /\ NamesOf(a) = {<<"bug">>}
         /\ NamesOf(b) = {<<"bug">>, <<"feature">>}
         /\ NamesOf(c) = {<<"feature">>}
         /\ ret.val.value.items = <<b>>

\* The elements of a list at the positions lo to hi, counted from 0, that
\* the list has.
Positions(list, lo, hi) ==
    IF Max(lo, 0) <= Min(hi, Len(list) - 1)
    THEN SubSeq(list, Max(lo, 0) + 1, Min(hi, Len(list) - 1) + 1) ELSE <<>>

\* The issues of the store, validated, in an order of their files.
InOrder(tree, order) ==
    [n \in DOMAIN order |-> ValidateIssue(tree.issues[order[n]])]

\* C26: with p = min(per_page, 100) and g = max(page, 1), a listing returns
\* the elements at the positions (g-1)*p to (g-1)*p + p - 1 of the filtered,
\* sorted list (so at most p of them), and total_count is the length of the
\* filtered list whatever the page.
C26_PageIsSlice ==
    ret.op = "list_issues" =>
        LET p == Min(ret.filters.per_page, 100)
            g == Max(ret.filters.page, 1)
        IN  /\ ret.val.is = "value"
            /\ \E order \in GlobOrders(DOMAIN store.issues) :
                 LET list == Sorted(Filtered(InOrder(store, order), ret.filters),
                                    ret.filters)
                 IN  /\ ret.val.value.items =
                          Positions(list, (g - 1) * p, (g - 1) * p + p - 1)
                     /\ ret.val.value.total_count = Len(list)
            /\ p >= 0 => Len(ret.val.value.items) <= p

\* What delete_issue(n) does to the issue n and leaves of everything else,
\* from one tree to the next.
DeletedFrom(t1, t2, n) ==
    /\ n \notin DOMAIN t2.issues
    /\ CommentsOf(t2, n) = {}
    /\ DOMAIN t2.issues = DOMAIN t1.issues \ {n}
    /\ \A m \in DOMAIN t2.issues : t2.issues[m] = t1.issues[m]
    /\ \A m \in Numbers \ {n} : CommentsOf(t2, m) = CommentsOf(t1, m)
    /\ t2.labels = t1.labels
    /\ ReadMeta(t2) = ReadMeta(t1)

\* C27: delete_issue(number) removes the issue and every comment stored
\* under it, leaves every other issue, the comments of the other issues, the
\* labels and the counters as they were, and changes nothing when the issue
\* does not exist.
C27_DeleteIssueFrame ==
    [][\A n \in Numbers :
          DeleteIssueCall(n) =>
            /\ DeletedFrom(store, store', n)
            /\ n \notin DOMAIN store.issues => store' = store]_vars

\* C27, amended: delete_issue(number) removes the issue and every comment
\* stored under it, leaves every other issue, the comments of the other
\* issues, the labels and the counters as they were, and changes nothing
\* when neither the issue nor a comment under its number exists.
C27_DeleteIssueFrameOfFiles ==
    [][\A n \in Numbers :
          DeleteIssueCall(n) =>
            /\ DeletedFrom(store, store', n)
            /\ (n \notin DOMAIN store.issues /\ CommentsOf(store, n) = {})
                  => store' = store]_vars

\* C27 happens: an issue that was written, with a comment under it, has been
\* deleted, and another issue with its comment and the labels are there.
C27_Witness ==
    /\ ret.op = "delete_issue"
    /\ ret.issue \in DOMAIN written.issues
    /\ \E id \in 1..MaxWrites : <<ret.issue, id>> \in DOMAIN written.comments
    /\ ret.issue \notin DOMAIN store.issues
    /\ \E m \in DOMAIN store.issues : CommentsOf(store, m) # {}

\* A list without the listeners of a set, the others in their order.
Except(conns, gone) == SelectSeq(conns, LAMBDA l : l \notin gone)

\* C28: disconnect(listener) changes nothing when the listener is not
\* registered, done twice it leaves what it leaves done once, and it leaves
\* the other listeners in their order; so the endpoint of a listener, and
\* the broadcasts that found its socket failed (two of them overlapping,
\* too), leave the list without it and otherwise as it was.
C28_DisconnectIdempotent ==
    [][/\ \A l \in Listeners :
            /\ Disconnect(connections, l) = Except(connections, {l})
            /\ Disconnect(Disconnect(connections, l), l) =
                  Disconnect(connections, l)
            /\ ClientDisconnect(l) => connections' = Except(connections, {l})
       /\ \A c \in Calls, ok \in BOOLEAN :
            Send(c, ok) /\ ~After(c, ok).active =>
                connections' = Except(connections, Range(After(c, ok).failed))]_vars

\* C28 happens: two overlapping broadcasts have both found the socket of a
\* listener failed; one has ended and disconnected it, the other is about
\* to disconnect it again, the listener's endpoint has not disconnected,
\* and another listener is still connected.
C28_Witness ==
    \E c, d \in Calls, l \in Listeners :
        /\ c # d
        /\ call[c].pc = "created"
        /\ bc[d].active
        /\ l \in Range(bc[d].failed)
        /\ wsState[l] = "open"
        /\ l \notin Range(connections)
        /\ connections # <<>>

\* Everything but the outcome of the last call.
butRet == <<sessions, sess, call, proc, task, bc, connections, wsState,
            received, emitted, settings, store, head, remote, env, storeSide,
            projSide, written>>

\* run() was called for the issue i; it has spawned a process for it.
RunCalled(i) ==
    \E c \in Calls : call[c].issue = i /\ call[c].pc \notin {"idle", "refused"}
RunSpawnedFor(i) ==
    \E c \in Calls : call[c].issue = i /\ call[c].pc \in {"broadcasting", "done"}

\* list_sessions has given one entry for each key with a session record.
OneEntryPerKey(r) ==
    /\ r.val.is = "value"
    /\ DOMAIN r.val.value = {k \in Keys : sessions[k] # NoSession}
    /\ \A k \in DOMAIN r.val.value :
         r.val.value[k].issue_number = k[2]
         /\ r.val.value[k].status = StatusOf(k)

\* C29: get_status and list_sessions change no session record, no process,
\* no broadcast and nothing else; get_status returns None exactly when run()
\* was never called for the key, and list_sessions one entry per key that
\* has a session record.
C29_StatusReadOnly ==
    [][/\ \A i \in Issues :
            GetStatus(i) =>
                /\ UNCHANGED butRet
                /\ ret'.val = NoValue <=> ~RunCalled(i)
       /\ ListSessions => UNCHANGED butRet /\ OneEntryPerKey(ret')]_vars

\* C29, amended: get_status and list_sessions change no session record, no
\* process, no broadcast and nothing else; get_status returns None exactly
\* when no run() call for the key has spawned its process, and list_sessions
\* one entry per key that has a session record.
C29_StatusReadOnlyOfSpawned ==
    [][/\ \A i \in Issues :
            GetStatus(i) =>
                /\ UNCHANGED butRet
                /\ ret'.val = NoValue <=> ~RunSpawnedFor(i)
       /\ ListSessions => UNCHANGED butRet /\ OneEntryPerKey(ret')]_vars

\* C29 happens: get_status has returned the info of a session that ended,
\* while the process of that session's key runs no more and a later run()
\* for the key failed to spawn.
C29_Witness ==
    /\ ret.op = "get_status"
    /\ ret.val.is = "value"
    /\ ret.val.value.status \in Terminal
    /\ \E c \in Calls : call[c].pc = "spawn_failed" /\ call[c].issue = ret.issue

\* C30: run() writes the default settings file only when the project has
\* none, and a settings file that exists is never overwritten or changed,
\* however many run() calls are made.
C30_SettingsKept ==
    [][/\ settings # "absent" => settings' = settings
       /\ settings' # settings =>
            /\ settings' = "default"
            /\ \E c \in Calls, i \in Issues : RunCheck(c, i)]_vars

\* C30 happens: every run() call was made and has spawned its process, and
\* the settings file the user had is as it was.
C30_Witness ==
    /\ settings = "custom"
    /\ \A c \in Calls : call[c].pc = "done"

\* The part of a text from position i on.
Suffix(text, i) == SubSeq(text, i, Len(text))

\* The positions of a text that hold "{" and from which the rest of the text
\* is a JSON object.
ObjectStarts(text) ==
    {i \in DOMAIN text : text[i] = "{" /\ IsDict(Loads(Suffix(text, i)))}

StartedOf(c) == Msg("amplifier:started", call[c].issue, NoComment, Absent, c)
IsTerminalOf(msg, c) ==
    msg.src = c /\ msg.event \in {"amplifier:completed", "amplifier:failed"}

\* C32: the amplifier:started event of a run is emitted, and its broadcast
\* is over, before the terminal event of the run is emitted, so a listener
\* that receives both receives started first.
C32_StartedBeforeTerminal ==
    \A c \in Calls :
        /\ (\E msg \in emitted : IsTerminalOf(msg, c)) =>
              /\ StartedOf(c) \in emitted
              /\ call[c].pc = "done"
        /\ \A l \in Listeners : \A n \in DOMAIN received[l] :
              (IsTerminalOf(received[l][n], c)
                 /\ StartedOf(c) \in Range(received[l]))
              => \E m \in 1..(n - 1) : received[l][m] = StartedOf(c)

\* C32 happens: a listener has received the started event of a run and then
\* its terminal event, and another listener, which connected later, the
\* terminal event alone.
C32_Witness ==
    \E c \in Calls, k, l \in Listeners :
        /\ Len(received[k]) = 2
        /\ received[k][1] = StartedOf(c)
        /\ IsTerminalOf(received[k][2], c)
        /\ Len(received[l]) = 1
        /\ IsTerminalOf(received[l][1], c)


CarriesIssueId(msg) == msg.event = "issue:created"
CarriesCommentId(msg) == msg.commentId # NoComment

\* C34: with handlers and supervising tasks interleaved only at their
\* awaits, the issue identifiers allocated by create_issue handlers in
\* progress at once are pairwise distinct, and so are the comment ids
\* allocated by create_comment handlers and write-backs: no two events of
\* different callers carry the same identifier, every comment file holds a
\* different id and none was overwritten by a later allocation.
C34_AllocatedDistinct ==
    /\ \A m, n \in emitted :
          m.src # n.src =>
             /\ (CarriesIssueId(m) /\ CarriesIssueId(n))
                   => m.issueNumber # n.issueNumber
             /\ (CarriesCommentId(m) /\ CarriesCommentId(n))
                   => m.commentId # n.commentId
    /\ \A x, y \in store.comments : x.id = y.id => x = y
    /\ Cardinality(store.comments) = store.next_comment_id - 1
    /\ DOMAIN store.issues = 1..(store.next_issue_id - 1)

\* A create_comment handler and a supervising task are suspended in their
\* broadcasts at once, each having allocated a comment id.
C34_Witness ==
    \E c, d \in Calls :
        /\ c # d
        /\ bc[c].active /\ bc[d].active
        /\ bc[c].msg.event = "comment:created"
        /\ bc[d].msg.event = "amplifier:completed"
        /\ CarriesCommentId(bc[c].msg) /\ CarriesCommentId(bc[d].msg)


\* The names of the labels of labels.json.
CollectionNames == {store.labels[n].name : n \in DOMAIN store.labels}

KeyOf(item) == SortKey(item, ret.filters.sort)

\* C36: the items list_issues returns are ordered by the requested key
\* (created, updated or comments; any other key means created):
\* non-decreasing when direction is not "desc", non-increasing when it is.
C36_ItemsOrdered ==
    (ret.op = "list_issues" /\ ret.val.is = "value") =>
        LET items == ret.val.value.items
        IN  \A m, n \in DOMAIN items :
                m < n => IF ret.filters.direction = "desc"
                         THEN KeyOf(items[m]) >= KeyOf(items[n])
                         ELSE KeyOf(items[m]) <= KeyOf(items[n])

\* A descending listing that returned items of different keys, and whose
\* key is none of the three known.
C36_Witness ==
    /\ ret.op = "list_issues" /\ ret.val.is = "value"
    /\ ret.filters.direction = "desc"
    /\ ret.filters.sort = "title"
    /\ Len(ret.val.value.items) >= 2
    /\ KeyOf(ret.val.value.items[1]) > KeyOf(ret.val.value.items[2])


\* The terminal events broadcast for the session that run s recorded: those
\* of the supervising tasks that supervised it.
TerminalEventsOf(s) ==
    {msg \in emitted :
        /\ msg.event \in {"amplifier:completed", "amplifier:failed"}
        /\ task[msg.src].session = s}

\* C37: for every accepted run at most one terminal event (amplifier:completed
\* or amplifier:failed) is ever broadcast, its kind is the status of the
\* run's session, and once the run's supervising task has ended there is
\* exactly one.
C37_OneTerminalEvent ==
    \A s \in Calls :
        sess[s] # NoSessionObj =>
            /\ Cardinality(TerminalEventsOf(s)) <= 1
            /\ \A msg \in TerminalEventsOf(s) :
                  msg.event = IF sess[s].status = "completed"
                              THEN "amplifier:completed" ELSE "amplifier:failed"
            /\ task[s].pc = "done" => Cardinality(TerminalEventsOf(s)) = 1


\* C38: if the spawn of the subprocess fails inside run(), the error leaves
\* run() and the step changes no session record, creates no task and
\* broadcasts nothing; the call has then recorded no session (the key holds
\* what it held, a previous terminal record included), has no supervising
\* task and has emitted no event.
C38_SpawnFailureChangesNothing ==
    [][\A c \in Calls :
        /\ (call[c].pc = "spawning" /\ call'[c].pc = "spawn_failed")
              => /\ sessions' = sessions /\ sess' = sess
                 /\ task' = task /\ proc' = proc
                 /\ emitted' = emitted /\ bc' = bc
        /\ call'[c].pc = "spawn_failed"
              => /\ sess'[c] = NoSessionObj
                 /\ task'[c] = NoTask
                 /\ \A k \in Keys : sessions'[k] # c
                 /\ \A msg \in emitted' : msg.src # c]_vars

\* A run() whose spawn failed, for a key that holds the terminal record the
\* call found.
C38_Witness ==
    \E c \in Calls :
        /\ call[c].pc = "spawn_failed"
        /\ call[c].existing # NoSession
        /\ sessions[Key(Project, call[c].issue)] = call[c].existing
        /\ sess[call[c].existing].status \in Terminal


\* The events of the mutating handlers.
HandlerEvents == {"issue:created", "issue:updated", "comment:created"}

\* What the event msg tells of is in the tree.
Holds(tree, msg) ==
    /\ msg.issueNumber \in DOMAIN tree.issues
    /\ msg.event = "comment:created" =>
          \E x \in tree.comments :
              x.issue = msg.issueNumber /\ x.id = msg.commentId

\* C39: create_issue, update_issue and create_comment emit their event only
\* once the write is made and committed and the push has returned: at the
\* step that emits it the working tree holds the write and is committed, and
\* origin holds that commit; a request in which a step before the broadcast
\* raised emits no event.
C39_BroadcastAfterPush ==
    [][\A c \in Calls :
        /\ \A msg \in emitted' \ emitted :
              (msg.src = c /\ msg.event \in HandlerEvents) =>
                  /\ Holds(store', msg)
                  /\ head' = store'
                  /\ remote'.has => remote'.tree = head'
                  /\ call'[c].pc \in {"creating", "created"}
        /\ call'[c].pc = "raised" => \A msg \in emitted' : msg.src # c]_vars

\* A request whose push raised has left a commit that origin lacks; a later
\* create_comment request is suspended in its broadcast, all pushed.
C39_Witness ==
    \E c, d \in Calls :
        /\ call[c].pc = "raised" /\ ret.val = "ok"
        /\ Len(log) > 2
        /\ call[d].pc = "creating" /\ bc[d].active
        /\ bc[d].msg.event = "comment:created"
        /\ remote.tree = store


\* The two persisted counters, by kind, and the kind a call leaves alone.
Persisted(tree, kind) == Counter(ReadMeta(tree), kind)
OtherKind(kind) == IF kind = "issue" THEN "comment" ELSE "issue"

\* C40: next_issue_id changes only the issue counter and next_comment_id
\* only the comment counter, and neither persisted counter ever decreases,
\* for any sequence or interleaving of allocations on one store.
C40_CountersNeverDecrease ==
    [][/\ \A a \in Clients :
            Allocates(a) =>
                Persisted(store', OtherKind(client[a].kind))
                    = Persisted(store, OtherKind(client[a].kind))
       /\ \A kind \in {"issue", "comment"} :
            Persisted(store', kind) >= Persisted(store, kind)]_vars

\* C40, for calls that no other call's write overlaps: such a call leaves
\* the other persisted counter as it is and raises its own; and while no two
\* calls have overlapped neither counter has decreased.
C40_CountersOfSequentialCalls ==
    [][/\ \A a \in Clients :
            (Allocates(a) /\ client[a].clean) =>
                /\ Persisted(store', OtherKind(client[a].kind))
                      = Persisted(store, OtherKind(client[a].kind))
                /\ Persisted(store', client[a].kind)
                      > Persisted(store, client[a].kind)
       /\ ~allocated'.overlapped =>
            \A kind \in {"issue", "comment"} :
                Persisted(store', kind) >= Persisted(store, kind)]_vars

\* Calls in a row, none overlapping another, have allocated identifiers of
\* both kinds.
C40_Witness ==
    /\ ~allocated.overlapped
    /\ Len(IdsOf(allocated.ids, "issue")) >= 1
    /\ Len(IdsOf(allocated.ids, "comment")) >= 1
    /\ Persisted(store, "issue") > allocated.base.next_issue_id
    /\ Persisted(store, "comment") > allocated.base.next_comment_id

====
